---- MODULE Spec2Model ----
(***************************************************************************)
(* Model of the multi-agent query system: the OrchestratorAgent (intent    *)
(* router), the DataIntelligenceAgent (dataset store) and the              *)
(* ResearchAssistantAgent (document store).                                *)
(*                                                                         *)
(* Strings are TLA+ strings; Python's `kw in text` is Contains and         *)
(* str.lower() is Lower.  Python dicts are insertion-ordered maps and are  *)
(* modelled as sequences of [key, value] entries.  Keyword scores are      *)
(* exact rationals, held as integers in units of 1/Scale.                  *)
(***************************************************************************)
EXTENDS Integers, Sequences, FiniteSets, TLC

VARIABLES
    data_storage,      \* DataIntelligenceAgent.data_storage   (name -> frame)
    dataset_info,      \* DataIntelligenceAgent.dataset_info   (name -> profile)
    current_dataset,   \* DataIntelligenceAgent.current_dataset
    documents,         \* ResearchAssistantAgent.documents     (name -> document)
    embeddings,        \* ResearchAssistantAgent.embeddings    (name -> vectors)
    faiss_indexes,     \* ResearchAssistantAgent.faiss_indexes (name -> index)
    last,              \* the last call: operation, inputs, result
    memo,              \* one earlier classification call, kept for comparison
    loaded             \* names loaded successfully since the last clear, with the frame last loaded

vars == <<data_storage, dataset_info, current_dataset, documents, embeddings,
          faiss_indexes, last, memo, loaded>>

None == "None"

----------------------------------------------------------------------------
(* Python str operations *)

UpperChars == "ABCDEFGHIJKLMNOPQRSTUVWXYZ"
LowerChars == "abcdefghijklmnopqrstuvwxyz"

\* one character of str.lower()
LowerChar(c) ==
    IF \E i \in 1..Len(UpperChars) : SubSeq(UpperChars, i, i) = c
    THEN LET i == CHOOSE j \in 1..Len(UpperChars) : SubSeq(UpperChars, j, j) = c
         IN  SubSeq(LowerChars, i, i)
    ELSE c

\* str.lower(): every character lowered (the string is split in halves to
\* keep the recursion shallow)
RECURSIVE Lower(_)
Lower(s) ==
    IF Len(s) = 0 THEN ""
    ELSE IF Len(s) = 1 THEN LowerChar(s)
    ELSE Lower(SubSeq(s, 1, Len(s) \div 2)) \o Lower(SubSeq(s, Len(s) \div 2 + 1, Len(s)))

\* Python: kw in text
Contains(kw, text) ==
    \E i \in 1..(Len(text) - Len(kw) + 1) : SubSeq(text, i, i + Len(kw) - 1) = kw

\* Python: any(w in text for w in words)
AnyIn(words, text) == \E i \in 1..Len(words) : Contains(words[i], text)

\* Python: len(kw.split()) for a keyword with single spaces between its words
RECURSIVE SplitLen(_)
SplitLen(kw) ==
    IF Len(kw) = 0 THEN 0
    ELSE IF \E i \in 1..Len(kw) : SubSeq(kw, i, i) = " "
         THEN LET i == CHOOSE j \in 1..Len(kw) : SubSeq(kw, j, j) = " "
              IN  (IF i > 1 THEN 1 ELSE 0) + SplitLen(SubSeq(kw, i + 1, Len(kw)))
         ELSE 1

----------------------------------------------------------------------------
(* Python dict: insertion-ordered, unique keys *)

HasKey(d, k) == \E i \in 1..Len(d) : d[i].key = k

DictKeys(d) == [i \in 1..Len(d) |-> d[i].key]

DictGet(d, k, default) ==
    IF HasKey(d, k)
    THEN d[CHOOSE i \in 1..Len(d) : d[i].key = k].value
    ELSE default

\* d[k] = v, written with an append for every assignment
DictSetAppend(d, k, v) == Append(d, [key |-> k, value |-> v])

\* d[k] = v : replaces the value of an existing key in place, appends a new key
DictSet(d, k, v) ==
    IF HasKey(d, k)
    THEN [i \in 1..Len(d) |-> IF d[i].key = k THEN [key |-> k, value |-> v] ELSE d[i]]
    ELSE Append(d, [key |-> k, value |-> v])

\* result[k] = v on a result dict (a record)
WithKey(r, k, v) == [x \in (DOMAIN r) \cup {k} |-> IF x = k THEN v ELSE r[x]]

----------------------------------------------------------------------------
(* The optional context map of a query.  keys is the set of keys the map   *)
(* holds; a key outside keys has the empty value.  present = FALSE is the  *)
(* call with context = None.                                               *)

\* context.get(key) of the two list-valued keys
ContextList(context, key) ==
    IF key \notin context.keys THEN <<>>
    ELSE IF key = "loaded_datasets" THEN context.loaded_datasets
    ELSE context.loaded_documents

\* Python truthiness of the context: None and the empty map are falsy
ContextTruthy(context) == context.present /\ context.keys # {}

----------------------------------------------------------------------------
(* OrchestratorAgent: query classification *)

\* QueryType enum values
DATA_ANALYSIS  == "data_analysis"
RESEARCH_QUERY == "research_query"
GENERAL        == "general"
AMBIGUOUS      == "ambiguous"

\* self.data_keywords: one keyword list per category
data_keywords ==
    << <<"total", "sum", "average", "mean", "count", "maximum", "minimum",
         "plot", "chart", "graph", "visualize", "trend", "sales", "revenue",
         "profit", "expense", "customer", "product", "data", "csv", "excel",
         "table", "column", "row", "filter", "sort", "group", "aggregate">>,
       <<"load", "upload", "import", "export", "save", "delete">>,
       <<"show", "display", "plot", "chart", "graph", "visualize",
         "bar", "line", "pie", "scatter", "histogram">> >>

\* self.research_keywords: one keyword list per category
research_keywords ==
    << <<"paper", "document", "pdf", "research", "study", "article",
         "publication", "journal", "abstract", "summary">>,
       <<"summarize", "extract", "keyword", "topic", "theme", "content",
         "methodology", "conclusion", "finding", "result">>,
       <<"find", "search", "locate", "identify", "discover", "lookup">>,
       <<"what", "how", "why", "when", "where", "who", "explain", "describe">> >>

\* Scores are rationals in units of 1/Scale; Scale is a common multiple of
\* (category size * number of categories) for both lexicons and of 100, so
\* every division below is exact.
Scale == 32 * 9 * 25 * 7 * 11

\* category_score before normalisation: the inner loop of
\* _calculate_keyword_score from keyword i on
RECURSIVE CategoryHits(_, _, _)
CategoryHits(query, keywords, i) ==
    IF i > Len(keywords) THEN 0
    ELSE (IF Contains(keywords[i], query) THEN SplitLen(keywords[i]) ELSE 0)
             + CategoryHits(query, keywords, i + 1)

\* total_score: the outer loop of _calculate_keyword_score from category c on
RECURSIVE TotalScore(_, _, _)
TotalScore(query, keyword_categories, c) ==
    IF c > Len(keyword_categories) THEN 0
    ELSE (IF Len(keyword_categories[c]) > 0
          THEN (CategoryHits(query, keyword_categories[c], 1) * Scale)
                   \div Len(keyword_categories[c])
          ELSE 0)
             + TotalScore(query, keyword_categories, c + 1)

\* _calculate_keyword_score: mean over the non-empty categories of hits/size
CalculateKeywordScore(query, keyword_categories) ==
    LET total_weight ==
            Cardinality({c \in 1..Len(keyword_categories) : Len(keyword_categories[c]) > 0})
    IN  IF total_weight > 0
        THEN TotalScore(query, keyword_categories, 1) \div total_weight
        ELSE 0

\* _get_context_bias, with the bonus taken from what the stores hold
GetContextBiasFromStores(context) ==
    [data     |-> IF Len(data_storage) > 0 THEN (2 * Scale) \div 10 ELSE 0,
     research |-> IF Len(documents) > 0 THEN (2 * Scale) \div 10 ELSE 0]

\* _get_context_bias: 0.2 for each kind of file the context says is loaded
GetContextBias(context) ==
    IF ~ContextTruthy(context)
    THEN [data |-> 0, research |-> 0]
    ELSE [data     |-> IF Len(ContextList(context, "loaded_datasets")) > 0
                       THEN (2 * Scale) \div 10 ELSE 0,
          research |-> IF Len(ContextList(context, "loaded_documents")) > 0
                       THEN (2 * Scale) \div 10 ELSE 0]

Min(a, b) == IF a < b THEN a ELSE b
Max(a, b) == IF a > b THEN a ELSE b
Abs(a) == IF a < 0 THEN 0 - a ELSE a

\* f"{score:.2f}": the score rounded to hundredths
Format2f(score) == (score * 100 + Scale \div 2) \div Scale

\* the explicit file type checks of _classify_query
data_formats     == <<".csv", ".xlsx", ".xls", "spreadsheet", "excel">>
research_formats == <<".pdf", "paper", "document", "research">>

Classification(type, confidence, text, shown) ==
    [query_type |-> type, confidence |-> confidence,
     reasoning |-> [text |-> text, score |-> shown]]

\* the decision on the two final scores, with the score used as the confidence
DecideUncapped(data_score, research_score) ==
    IF data_score > research_score /\ data_score > (3 * Scale) \div 10
    THEN Classification(DATA_ANALYSIS, data_score,
                        "Data keywords score: ", Format2f(data_score))
    ELSE IF research_score > data_score /\ research_score > (3 * Scale) \div 10
    THEN Classification(RESEARCH_QUERY, research_score,
                        "Research keywords score: ", Format2f(research_score))
    ELSE IF Abs(data_score - research_score) < Scale \div 10
            /\ Max(data_score, research_score) > (2 * Scale) \div 10
    THEN Classification(AMBIGUOUS, (5 * Scale) \div 10, "Similar scores for both agents", 0)
    ELSE Classification(GENERAL, (3 * Scale) \div 10, "No clear category match", 0)

\* the decision with the 0.3 threshold also applied to the ambiguous case
DecideAmbiguousThreshold(data_score, research_score) ==
    IF data_score > research_score /\ data_score > (3 * Scale) \div 10
    THEN Classification(DATA_ANALYSIS, Min((8 * Scale) \div 10, data_score),
                        "Data keywords score: ", Format2f(data_score))
    ELSE IF research_score > data_score /\ research_score > (3 * Scale) \div 10
    THEN Classification(RESEARCH_QUERY, Min((8 * Scale) \div 10, research_score),
                        "Research keywords score: ", Format2f(research_score))
    ELSE IF Abs(data_score - research_score) < Scale \div 10
            /\ Max(data_score, research_score) > (3 * Scale) \div 10
    THEN Classification(AMBIGUOUS, (5 * Scale) \div 10, "Similar scores for both agents", 0)
    ELSE Classification(GENERAL, (3 * Scale) \div 10, "No clear category match", 0)

\* the decision logic of _classify_query on the two final scores
Decide(data_score, research_score) ==
    IF data_score > research_score /\ data_score > (3 * Scale) \div 10
    THEN Classification(DATA_ANALYSIS, Min((8 * Scale) \div 10, data_score),
                        "Data keywords score: ", Format2f(data_score))
    ELSE IF research_score > data_score /\ research_score > (3 * Scale) \div 10
    THEN Classification(RESEARCH_QUERY, Min((8 * Scale) \div 10, research_score),
                        "Research keywords score: ", Format2f(research_score))
    ELSE IF Abs(data_score - research_score) < Scale \div 10
            /\ Max(data_score, research_score) > (2 * Scale) \div 10
    THEN Classification(AMBIGUOUS, (5 * Scale) \div 10, "Similar scores for both agents", 0)
    ELSE Classification(GENERAL, (3 * Scale) \div 10, "No clear category match", 0)

\* the two final scores: keyword score plus context bonus
FinalScores(query_lower, context) ==
    [data     |-> CalculateKeywordScore(query_lower, data_keywords)
                      + GetContextBias(context).data,
     research |-> CalculateKeywordScore(query_lower, research_keywords)
                      + GetContextBias(context).research]

\* _classify_query with the document formats checked first
ClassifyQueryDocumentFirst(query, context) ==
    LET query_lower == Lower(query)
        s == FinalScores(query_lower, context)
    IN  IF AnyIn(research_formats, query_lower)
        THEN Classification(RESEARCH_QUERY, (9 * Scale) \div 10,
                            "Query mentions research documents", 0)
        ELSE IF AnyIn(data_formats, query_lower)
        THEN Classification(DATA_ANALYSIS, (9 * Scale) \div 10,
                            "Query mentions data file formats", 0)
        ELSE Decide(s.data, s.research)

\* _classify_query
ClassifyQuery(query, context) ==
    LET query_lower == Lower(query)
        s == FinalScores(query_lower, context)
    IN  IF AnyIn(data_formats, query_lower)
        THEN Classification(DATA_ANALYSIS, (9 * Scale) \div 10,
                            "Query mentions data file formats", 0)
        ELSE IF AnyIn(research_formats, query_lower)
        THEN Classification(RESEARCH_QUERY, (9 * Scale) \div 10,
                            "Query mentions research documents", 0)
        ELSE Decide(s.data, s.research)

----------------------------------------------------------------------------
(* DataIntelligenceAgent: frames, files and load_data *)

\* A pandas DataFrame: column names, dtype per column ("number", "object" or "datetime64"),
\* and the values column by column.
SalesFrame ==
    [columns |-> <<"Region", "Revenue", "Date">>,
     dtypes  |-> <<"object", "number", "object">>,
     values  |-> << <<"East", "West", "North", "East", "South">>,
                    <<1200, 75, 400, 1200, 80>>,
                    <<"2024-03-01", "2024-01-15", "2024-02-10", "2024-01-02", "2024-04-20">> >>]

NotesFrame ==
    [columns |-> <<"Name", "Comment">>,
     dtypes  |-> <<"object", "object">>,
     values  |-> << <<"Ann", "Bob">>, <<"fine", "late">> >>]

CostsFrame ==
    [columns |-> <<"Units", "Revenue">>,
     dtypes  |-> <<"number", "number">>,
     values  |-> << <<3, 1, 2>>, <<50, 20, 50>> >>]

\* a frame whose text columns From and To come before the numeric one
ShipmentsFrame ==
    [columns |-> <<"From", "To", "Revenue">>,
     dtypes  |-> <<"object", "object", "number">>,
     values  |-> << <<"Oslo", "Rome", "Oslo", "Bern">>,
                    <<"Rome", "Bern", "Kiev", "Oslo">>,
                    <<10, 40, 40, 25>> >>]

\* a frame as pd.read_excel gives it for a sheet with date cells: the column
\* Opened has dtype datetime64, neither a number nor an object
FlagsFrame ==
    [columns |-> <<"Opened", "Score">>,
     dtypes  |-> <<"datetime64", "number">>,
     values  |-> << <<"2024-01-03", "2024-01-01", "2024-01-02">>,
                    <<7, 9, 7>> >>]

\* a frame whose date column parses in its first five rows only
EventsFrame ==
    [columns |-> <<"When", "Amount">>,
     dtypes  |-> <<"object", "number">>,
     values  |-> << <<"2024-03-01", "2024-01-15", "2024-02-01", "2024-01-02",
                      "2024-02-20", "TBD">>,
                    <<5, 3, 8, 1, 4, 2>> >>]

\* a frame with a date column and no numeric column
DaysFrame ==
    [columns |-> <<"Day", "Label">>,
     dtypes  |-> <<"object", "object">>,
     values  |-> << <<"2024-05-02", "2024-05-01">>, <<"open", "shut">> >>]

NoFrame == [columns |-> <<>>, dtypes |-> <<>>, values |-> <<>>]

Frames == {SalesFrame, NotesFrame, CostsFrame}

NumRows(df) == IF Len(df.columns) = 0 THEN 0 ELSE Len(df.values[1])

\* Path(file_path).suffix: the part of the last path component from its last
\* dot on, empty when there is no dot or only a leading one
Suffix(path) ==
    LET slashes == {i \in 1..Len(path) : SubSeq(path, i, i) = "/"}
        start   == IF slashes = {} THEN 1
                   ELSE 1 + CHOOSE i \in slashes : \A j \in slashes : j <= i
        dots    == {i \in (start + 1)..Len(path) : SubSeq(path, i, i) = "."}
    IN  IF dots = {} THEN ""
        ELSE SubSeq(path, CHOOSE i \in dots : \A j \in dots : j <= i, Len(path))

IsDigit(c) == Len(c) = 1 /\ Contains(c, "0123456789")

DigitValue(c) == (CHOOSE i \in 1..10 : SubSeq("0123456789", i, i) = c) - 1

\* int(s) of a string of digits
RECURSIVE ParseInt(_)
ParseInt(s) ==
    IF Len(s) = 0 THEN 0
    ELSE 10 * ParseInt(SubSeq(s, 1, Len(s) - 1)) + DigitValue(SubSeq(s, Len(s), Len(s)))

\* whether pd.to_datetime accepts the value (an ISO date YYYY-MM-DD)
ParsesAsDate(v) ==
    /\ Len(v) = 10
    /\ \A i \in {1, 2, 3, 4, 6, 7, 9, 10} : IsDigit(SubSeq(v, i, i))
    /\ SubSeq(v, 5, 5) = "-" /\ SubSeq(v, 8, 8) = "-"

\* pd.to_datetime of an accepted value, as a number ordered like the dates
ToDatetime(v) ==
    ParseInt(SubSeq(v, 1, 4)) * 10000 + ParseInt(SubSeq(v, 6, 7)) * 100
        + ParseInt(SubSeq(v, 9, 10))

\* pd.to_datetime(df[col].head(), errors='raise') does not raise
HeadParsesAsDates(df, c) ==
    \A i \in 1..Min(5, NumRows(df)) : ParsesAsDate(df.values[c][i])

\* the columns (by name, in column order) whose index satisfies keep
SelectColumns(df, keep(_)) ==
    LET idx == {c \in 1..Len(df.columns) : keep(c)}
        RECURSIVE Build(_)
        Build(c) == IF c > Len(df.columns) THEN <<>>
                    ELSE (IF c \in idx THEN <<df.columns[c]>> ELSE <<>>) \o Build(c + 1)
    IN  Build(1)

NumericColumns(df) == LET K(c) == df.dtypes[c] = "number" IN SelectColumns(df, K)

\* the object columns whose head parses as dates
DatetimeColumns(df) ==
    LET K(c) == df.dtypes[c] = "object" /\ HeadParsesAsDates(df, c)
    IN  SelectColumns(df, K)

\* _generate_dataset_info with a date-like column left among the categorical ones
GenerateDatasetInfoKeepCategorical(df, file_name) ==
    LET O(c) == df.dtypes[c] = "object"
    IN  [file_name           |-> file_name,
         shape               |-> <<NumRows(df), Len(df.columns)>>,
         columns             |-> df.columns,
         numeric_columns     |-> NumericColumns(df),
         categorical_columns |-> SelectColumns(df, O),
         datetime_columns    |-> DatetimeColumns(df)]

\* _generate_dataset_info
GenerateDatasetInfo(df, file_name) ==
    LET C(c) == df.dtypes[c] = "object" /\ ~HeadParsesAsDates(df, c)
    IN  [file_name           |-> file_name,
         shape               |-> <<NumRows(df), Len(df.columns)>>,
         columns             |-> df.columns,
         numeric_columns     |-> NumericColumns(df),
         categorical_columns |-> SelectColumns(df, C),
         datetime_columns    |-> DatetimeColumns(df)]

NoInfo == GenerateDatasetInfo(NoFrame, None)

\* An uploaded data file: the path it was saved at, and what the parser
\* makes of its bytes (parses = FALSE: pd.read_csv / pd.read_excel raises).
DataFile(path, parses, frame) == [path |-> path, parses |-> parses, frame |-> frame]

\* load_data returns an error: unsupported extension or parse failure
LoadDataFails(file) ==
    \/ Lower(Suffix(file.path)) \notin {".csv", ".xlsx", ".xls"}
    \/ ~file.parses

\* the result of load_data
LoadDataResult(file, file_name) ==
    IF Lower(Suffix(file.path)) \notin {".csv", ".xlsx", ".xls"}
    THEN [error |-> "Unsupported file format"]
    ELSE IF ~file.parses
    THEN [error |-> "Failed to load file"]
    ELSE [success |-> TRUE, message |-> "Successfully loaded",
          info |-> GenerateDatasetInfo(file.frame, file_name)]

\* the stores after load_data(file_path, file_name)
LoadDataStorage(file, file_name) ==
    IF LoadDataFails(file) THEN data_storage
    ELSE DictSet(data_storage, file_name, file.frame)

LoadDataInfo(file, file_name) ==
    IF LoadDataFails(file) THEN dataset_info
    ELSE DictSet(dataset_info, file_name, GenerateDatasetInfo(file.frame, file_name))

\* the active name when load_data sets it before it reads the file
LoadDataCurrentBeforeRead(file, file_name) == file_name

\* the active name when load_data leaves it alone on a name already stored
LoadDataCurrentNewNamesOnly(file, file_name) ==
    IF LoadDataFails(file) \/ HasKey(data_storage, file_name)
    THEN current_dataset ELSE file_name

LoadDataCurrent(file, file_name) ==
    IF LoadDataFails(file) THEN current_dataset ELSE file_name

----------------------------------------------------------------------------
(* DataIntelligenceAgent: process_query and its handlers *)

ColumnIndex(df, col) == CHOOSE c \in 1..Len(df.columns) : df.columns[c] = col

IsNumeric(df, col) == df.dtypes[ColumnIndex(df, col)] = "number"

\* the columns whose lowercased name occurs in the text, in column order
MentionedColumns(df, text) ==
    LET K(c) == Contains(Lower(df.columns[c]), text) IN SelectColumns(df, K)

\* first column whose lowercased name occurs in the text, or None
TargetColumn(df, text) ==
    IF Len(MentionedColumns(df, text)) > 0 THEN MentionedColumns(df, text)[1] ELSE None

RECURSIVE SeqSum(_)
SeqSum(v) == IF Len(v) = 0 THEN 0 ELSE Head(v) + SeqSum(Tail(v))

SeqMax(v) == CHOOSE x \in {v[i] : i \in 1..Len(v)} : \A i \in 1..Len(v) : v[i] <= x
SeqMin(v) == CHOOSE x \in {v[i] : i \in 1..Len(v)} : \A i \in 1..Len(v) : x <= v[i]

\* the statistic of one numeric column, as the fraction num/den
\* (den = 0: the NaN pandas returns for an empty column)
Statistic(v, operation) ==
    IF Len(v) = 0 THEN [num |-> 0, den |-> IF operation = "sum" THEN 1 ELSE 0]
    ELSE IF operation = "sum"  THEN [num |-> SeqSum(v), den |-> 1]
    ELSE IF operation = "mean" THEN [num |-> SeqSum(v), den |-> Len(v)]
    ELSE IF operation = "max"  THEN [num |-> SeqMax(v), den |-> 1]
    ELSE [num |-> SeqMin(v), den |-> 1]

\* the aggregation with the first numeric column named in the query as its target
HandleAggregationQueryFirstNumeric(df, query, operation) ==
    LET numeric_cols == NumericColumns(df)
        named == SelectSeq(numeric_cols, LAMBDA col : Contains(Lower(col), Lower(query)))
    IN  IF named # <<>>
        THEN [success |-> TRUE,
              result |-> Statistic(df.values[ColumnIndex(df, named[1])], operation),
              message |-> <<"The ", operation, " of ", named[1]>>,
              query_type |-> "aggregation"]
        ELSE [success |-> TRUE,
              results |-> [i \in 1..Len(numeric_cols) |->
                              [key |-> numeric_cols[i],
                               value |-> Statistic(df.values[ColumnIndex(df, numeric_cols[i])],
                                                   operation)]],
              message |-> <<operation, " values for all numeric columns">>,
              query_type |-> "aggregation"]

\* _handle_aggregation_query
HandleAggregationQuery(df, query, operation) ==
    LET target_column == TargetColumn(df, Lower(query))
        numeric_cols  == NumericColumns(df)
    IN  IF target_column # None /\ IsNumeric(df, target_column)
        THEN [success |-> TRUE,
              result |-> Statistic(df.values[ColumnIndex(df, target_column)], operation),
              message |-> <<"The ", operation, " of ", target_column>>,
              query_type |-> "aggregation"]
        ELSE [success |-> TRUE,
              results |-> [i \in 1..Len(numeric_cols) |->
                              [key |-> numeric_cols[i],
                               value |-> Statistic(df.values[ColumnIndex(df, numeric_cols[i])],
                                                   operation)]],
              message |-> <<operation, " values for all numeric columns">>,
              query_type |-> "aggregation"]

\* _handle_count_query
HandleCountQuery(df, query) ==
    [success |-> TRUE, result |-> NumRows(df),
     message |-> "Total number of records", query_type |-> "count"]

\* chart type chosen by _handle_visualization_query
ChartType(query_lower) ==
    IF Contains("bar", query_lower) \/ Contains("column", query_lower) THEN "bar"
    ELSE IF Contains("line", query_lower) \/ Contains("trend", query_lower) THEN "line"
    ELSE IF Contains("pie", query_lower) THEN "pie"
    ELSE IF Contains("scatter", query_lower) THEN "scatter"
    ELSE IF Contains("histogram", query_lower) \/ Contains("distribution", query_lower)
         THEN "histogram"
    ELSE "bar"

\* _create_chart: the chart description, or the error dict its except clause
\* returns when plotting raises (df.groupby(x_col) with x_col = None)
CreateChart(df, chart_type, x_col, y_col) ==
    IF chart_type \in {"bar", "pie"} /\ x_col = None
    THEN [error |-> "Failed to create chart"]
    ELSE [chart_json |-> <<chart_type, x_col, y_col>>, chart_type |-> chart_type,
          x_column |-> x_col, y_column |-> y_col]

\* _handle_visualization_query
HandleVisualizationQuery(df, query) ==
    LET query_lower    == Lower(query)
        chart_type     == ChartType(query_lower)
        mentioned_cols == MentionedColumns(df, query_lower)
        numeric_cols   == NumericColumns(df)
        O(c)           == df.dtypes[c] = "object"
        categorical_cols == SelectColumns(df, O)
        Chart(x_col, y_col) ==
            [success |-> TRUE, chart_data |-> CreateChart(df, chart_type, x_col, y_col),
             message |-> <<"Generated chart", chart_type>>, query_type |-> "visualization"]
    IN  IF Len(mentioned_cols) = 0
        THEN IF Len(numeric_cols) > 0 /\ Len(categorical_cols) > 0
             THEN Chart(categorical_cols[1], numeric_cols[1])
             ELSE IF Len(numeric_cols) > 1
             THEN Chart(numeric_cols[1], numeric_cols[2])
             ELSE [error |-> "Unable to determine appropriate columns for visualization"]
        ELSE IF Len(mentioned_cols) = 1
        THEN IF df.dtypes[ColumnIndex(df, mentioned_cols[1])] = "object"
             THEN Chart(mentioned_cols[1], None)
             ELSE Chart(None, mentioned_cols[1])
        ELSE Chart(mentioned_cols[1], mentioned_cols[2])

\* the rows ordered by value with, among equal values, the later row first
RECURSIVE SortedRowsLastSeen(_, _, _)
SortedRowsLastSeen(v, rows, descending) ==
    IF rows = {} THEN <<>>
    ELSE LET best == CHOOSE r \in rows :
                        \A o \in rows :
                            \/ o = r
                            \/ IF descending THEN v[r] > v[o] ELSE v[r] < v[o]
                            \/ v[r] = v[o] /\ r > o
         IN  <<best>> \o SortedRowsLastSeen(v, rows \ {best}, descending)

\* row numbers of a column ordered by value; ties keep first-seen order
RECURSIVE SortedRows(_, _, _)
SortedRows(v, rows, descending) ==
    IF rows = {} THEN <<>>
    ELSE LET best == CHOOSE r \in rows :
                        \A o \in rows :
                            \/ o = r
                            \/ IF descending THEN v[r] > v[o] ELSE v[r] < v[o]
                            \/ v[r] = v[o] /\ r < o
         IN  <<best>> \o SortedRows(v, rows \ {best}, descending)

\* _create_trend_chart
CreateTrendChart(df, order, date_col, value_col) ==
    [chart_json |-> [x |-> [i \in 1..Len(order) |->
                               df.values[ColumnIndex(df, date_col)][order[i]]],
                     y |-> [i \in 1..Len(order) |->
                               df.values[ColumnIndex(df, value_col)][order[i]]]],
     chart_type |-> "line", x_column |-> date_col, y_column |-> value_col]

\* _handle_trend_query; pd.to_datetime(df_copy[date_col]) raises on a value
\* beyond the head that is not a date, and process_query catches it
HandleTrendQuery(df, query) ==
    LET datetime_cols == DatetimeColumns(df)
        numeric_cols  == NumericColumns(df)
    IN  IF Len(datetime_cols) = 0
        THEN [error |-> "No datetime columns found for trend analysis"]
        ELSE IF Len(numeric_cols) = 0
        THEN [error |-> "No numeric columns found for trend analysis"]
        ELSE IF \E r \in 1..NumRows(df) :
                    ~ParsesAsDate(df.values[ColumnIndex(df, datetime_cols[1])][r])
        THEN [error |-> "Failed to process query"]
        ELSE LET date_col == datetime_cols[1]
                 dates == [r \in 1..NumRows(df) |->
                              ToDatetime(df.values[ColumnIndex(df, date_col)][r])]
                 order == SortedRows(dates, 1..NumRows(df), FALSE)
             IN  [success |-> TRUE,
                  chart_data |-> CreateTrendChart(df, order, date_col, numeric_cols[1]),
                  message |-> <<"Generated trend analysis for ", numeric_cols[1]>>,
                  query_type |-> "trend"]

\* re.findall(r'\d+', query)[0] as an int, or the default when there is no digit
FirstInteger(query, default) ==
    LET digits == {i \in 1..Len(query) : IsDigit(SubSeq(query, i, i))}
    IN  IF digits = {} THEN default
        ELSE LET first == CHOOSE i \in digits : \A j \in digits : i <= j
                 stop  == CHOOSE i \in first..Len(query) :
                              /\ \A j \in first..i : j \in digits
                              /\ (i + 1) \notin digits
             IN  ParseInt(SubSeq(query, first, stop))

\* _handle_ranking_query; df.nlargest / df.nsmallest raise on an object column
HandleRankingQuery(df, query) ==
    LET query_lower   == Lower(query)
        n             == FirstInteger(query, 5)
        ascending     == Contains("bottom", query_lower) \/ Contains("lowest", query_lower)
        numeric_cols  == NumericColumns(df)
        mentioned     == TargetColumn(df, query_lower)
        target_column == IF mentioned = None /\ Len(numeric_cols) > 0
                         THEN numeric_cols[1] ELSE mentioned
    IN  IF target_column = None
        THEN [error |-> "Could not identify column for ranking"]
        ELSE IF df.dtypes[ColumnIndex(df, target_column)] = "object"
        THEN [error |-> "Failed to process query"]
        ELSE LET column == df.values[ColumnIndex(df, target_column)]
                 keys == IF IsNumeric(df, target_column) THEN column
                         ELSE [r \in 1..NumRows(df) |-> ToDatetime(column[r])]
                 order == SortedRows(keys, 1..NumRows(df), ~ascending)
             IN  [success |-> TRUE,
                  result |-> SubSeq(order, 1, Min(n, Len(order))),
                  message |-> <<IF ascending THEN "Bottom" ELSE "Top", n, target_column>>,
                  query_type |-> "ranking"]

\* _handle_filter_query
HandleFilterQuery(df, query) ==
    [success |-> TRUE,
     message |-> "Filter functionality would require more specific query parsing",
     suggestion |-> "Please specify exact filter conditions",
     query_type |-> "filter"]

\* _handle_general_query: the profile stored under current_dataset
\* (info and current are self.dataset_info and self.current_dataset)
HandleGeneralQuery(info, current, df, query) ==
    [success |-> TRUE,
     info |-> DictGet(info, current, NoInfo),
     message |-> "Here's general information about your dataset",
     query_type |-> "general"]

\* the handler choice with the trend words tested before the visualization words
DataQueryCategoryTrendFirst(query_lower) ==
    IF AnyIn(<<"total", "sum", "add">>, query_lower) THEN "sum"
    ELSE IF AnyIn(<<"average", "mean", "avg">>, query_lower) THEN "mean"
    ELSE IF AnyIn(<<"maximum", "max", "highest">>, query_lower) THEN "max"
    ELSE IF AnyIn(<<"minimum", "min", "lowest">>, query_lower) THEN "min"
    ELSE IF AnyIn(<<"count", "number of">>, query_lower) THEN "count"
    ELSE IF AnyIn(<<"trend", "over time", "timeline">>, query_lower) THEN "trend"
    ELSE IF AnyIn(<<"plot", "chart", "graph", "visualize", "show">>, query_lower)
         THEN "visualization"
    ELSE IF AnyIn(<<"top", "bottom", "rank">>, query_lower) THEN "ranking"
    ELSE IF AnyIn(<<"filter", "where", "condition">>, query_lower) THEN "filter"
    ELSE "general"

\* the handler choice with 'lowest' left to the ranking handler
DataQueryCategoryLowestRanks(query_lower) ==
    IF AnyIn(<<"total", "sum", "add">>, query_lower) THEN "sum"
    ELSE IF AnyIn(<<"average", "mean", "avg">>, query_lower) THEN "mean"
    ELSE IF AnyIn(<<"maximum", "max", "highest">>, query_lower) THEN "max"
    ELSE IF AnyIn(<<"minimum", "min">>, query_lower) THEN "min"
    ELSE IF AnyIn(<<"count", "number of">>, query_lower) THEN "count"
    ELSE IF AnyIn(<<"plot", "chart", "graph", "visualize", "show">>, query_lower)
         THEN "visualization"
    ELSE IF AnyIn(<<"trend", "over time", "timeline">>, query_lower) THEN "trend"
    ELSE IF AnyIn(<<"top", "bottom", "rank", "lowest">>, query_lower) THEN "ranking"
    ELSE IF AnyIn(<<"filter", "where", "condition">>, query_lower) THEN "filter"
    ELSE "general"

\* the handler process_query picks: the first keyword group found in the query
DataQueryCategory(query_lower) ==
    IF AnyIn(<<"total", "sum", "add">>, query_lower) THEN "sum"
    ELSE IF AnyIn(<<"average", "mean", "avg">>, query_lower) THEN "mean"
    ELSE IF AnyIn(<<"maximum", "max", "highest">>, query_lower) THEN "max"
    ELSE IF AnyIn(<<"minimum", "min", "lowest">>, query_lower) THEN "min"
    ELSE IF AnyIn(<<"count", "number of">>, query_lower) THEN "count"
    ELSE IF AnyIn(<<"plot", "chart", "graph", "visualize", "show">>, query_lower)
         THEN "visualization"
    ELSE IF AnyIn(<<"trend", "over time", "timeline">>, query_lower) THEN "trend"
    ELSE IF AnyIn(<<"top", "bottom", "rank">>, query_lower) THEN "ranking"
    ELSE IF AnyIn(<<"filter", "where", "condition">>, query_lower) THEN "filter"
    ELSE "general"

\* the dataset a query addresses: the named one, else current_dataset
AddressedDataset(current, dataset_name) ==
    IF dataset_name = None \/ dataset_name = "" THEN current ELSE dataset_name

\* the guard of process_query, testing only that a name is set
NoDatasetNameOnly(storage, name) == name = None \/ name = ""

\* the guard of process_query: no name, or a name that is not in the store
NoDataset(storage, name) == name = None \/ name = "" \/ ~HasKey(storage, name)

\* DataIntelligenceAgent.process_query on an agent whose data_storage,
\* dataset_info and current_dataset are storage, info and current
DataProcessQueryOn(storage, info, current, query, dataset_name) ==
    LET name == AddressedDataset(current, dataset_name)
        df == DictGet(storage, name, NoFrame)
        category == DataQueryCategory(Lower(query))
    IN  IF NoDataset(storage, name)
        THEN [error |-> "No dataset loaded. Please upload a file first."]
        ELSE IF category \in {"sum", "mean", "max", "min"}
        THEN HandleAggregationQuery(df, query, category)
        ELSE IF category = "count" THEN HandleCountQuery(df, query)
        ELSE IF category = "visualization" THEN HandleVisualizationQuery(df, query)
        ELSE IF category = "trend" THEN HandleTrendQuery(df, query)
        ELSE IF category = "ranking" THEN HandleRankingQuery(df, query)
        ELSE IF category = "filter" THEN HandleFilterQuery(df, query)
        ELSE HandleGeneralQuery(info, current, df, query)

\* DataIntelligenceAgent.process_query
DataProcessQuery(query, dataset_name) ==
    DataProcessQueryOn(data_storage, dataset_info, current_dataset, query, dataset_name)

\* list_datasets
ListDatasets == DictKeys(data_storage)

----------------------------------------------------------------------------
(* ResearchAssistantAgent: load_pdf *)

\* A PDF file: whether either extractor can read it, whether the extracted
\* text is blank, and the sentences sent_tokenize finds in the cleaned text.
PdfFile(readable, blank, sentences) ==
    [readable |-> readable, blank |-> blank, sentences |-> sentences]

\* str.strip() for spaces
RECURSIVE Strip(_)
Strip(s) ==
    IF Len(s) = 0 THEN s
    ELSE IF SubSeq(s, 1, 1) = " " THEN Strip(SubSeq(s, 2, Len(s)))
    ELSE IF SubSeq(s, Len(s), Len(s)) = " " THEN Strip(SubSeq(s, 1, Len(s) - 1))
    ELSE s

\* " ".join(strings)
RECURSIVE Join(_)
Join(strings) ==
    IF Len(strings) = 0 THEN ""
    ELSE IF Len(strings) = 1 THEN strings[1]
    ELSE strings[1] \o " " \o Join(Tail(strings))

\* nltk sent_tokenize on plain prose: a sentence ends at '.', '!' or '?'
\* followed by a space; sentences come without surrounding spaces
RECURSIVE SentTokenizeStripped(_)
SentTokenizeStripped(s) ==
    LET ends == {i \in 1..(Len(s) - 1) :
                    /\ SubSeq(s, i, i) \in {".", "!", "?"}
                    /\ SubSeq(s, i + 1, i + 1) = " "}
    IN  IF Len(s) = 0 THEN <<>>
        ELSE IF ends = {} THEN <<s>>
        ELSE LET e == CHOOSE i \in ends : \A j \in ends : i <= j
             IN  <<SubSeq(s, 1, e)>> \o SentTokenizeStripped(Strip(SubSeq(s, e + 1, Len(s))))

SentTokenize(text) == SentTokenizeStripped(Strip(text))

\* one chunk dict; sentences records the sentences its text is made of
Chunk(text, id, sents) ==
    [text |-> Strip(text), chunk_id |-> id, sentence_count |-> Len(sents),
     sentences |-> sents]

\* current_sentences[-overlap//50:] if len(current_sentences) > overlap//50
\* else [] : the slice starts at (-overlap)//50, floored, so it takes the last
\* ceil(overlap/50) sentences, and the whole list when that start is 0
OverlapSentences(current_sentences, overlap) ==
    LET start == (0 - overlap) \div 50
    IN  IF Len(current_sentences) > overlap \div 50
        THEN IF start = 0 THEN current_sentences
             ELSE SubSeq(current_sentences, Max(1, Len(current_sentences) + start + 1),
                         Len(current_sentences))
        ELSE <<>>

\* the loop of _split_into_chunks from sentence i on
RECURSIVE SplitLoop(_, _, _, _, _, _, _)
SplitLoop(sentences, i, chunks, current_chunk, current_sentences, chunk_size, overlap) ==
    IF i > Len(sentences)
    THEN IF Len(current_chunk) > 0
         THEN Append(chunks, Chunk(current_chunk, Len(chunks), current_sentences))
         ELSE chunks
    ELSE IF Len(current_chunk) + Len(sentences[i]) < chunk_size
    THEN SplitLoop(sentences, i + 1, chunks, current_chunk \o " " \o sentences[i],
                   Append(current_sentences, sentences[i]), chunk_size, overlap)
    ELSE LET closed == IF Len(current_chunk) > 0
                       THEN Append(chunks, Chunk(current_chunk, Len(chunks), current_sentences))
                       ELSE chunks
             overlap_sentences == OverlapSentences(current_sentences, overlap)
         IN  SplitLoop(sentences, i + 1, closed,
                       Join(overlap_sentences) \o " " \o sentences[i],
                       overlap_sentences \o <<sentences[i]>>, chunk_size, overlap)

\* a splitter that leaves out every sentence as long as the chunk budget
SplitIntoChunksSkipLong(sentences, chunk_size, overlap) ==
    SplitLoop(SelectSeq(sentences, LAMBDA sentence : Len(sentence) < chunk_size),
              1, <<>>, "", <<>>, chunk_size, overlap)

\* _split_into_chunks
SplitIntoChunks(sentences, chunk_size, overlap) ==
    SplitLoop(sentences, 1, <<>>, "", <<>>, chunk_size, overlap)

\* the score _generate_summary gives sentence i (1-based; Python's index is
\* i - 1); i < len * 0.3 and i > len * 0.7 are compared in tenths
SentenceScore(sentences, i) ==
    (IF 10 * (i - 1) < 3 * Len(sentences) THEN 2 ELSE 0)
        + (IF 10 * (i - 1) > 7 * Len(sentences) THEN 1 ELSE 0)
        + (IF 50 < Len(sentences[i]) /\ Len(sentences[i]) < 200 THEN 1 ELSE 0)

\* an ordering of the sentences by score with the earlier sentence first
\* among equal scores
RECURSIVE RankEarlierFirst(_, _)
RankEarlierFirst(sentences, rest) ==
    IF rest = {} THEN <<>>
    ELSE LET best == CHOOSE i \in rest :
                        \A j \in rest :
                            \/ SentenceScore(sentences, i) > SentenceScore(sentences, j)
                            \/ /\ SentenceScore(sentences, i) = SentenceScore(sentences, j)
                               /\ i <= j
         IN  <<best>> \o RankEarlierFirst(sentences, rest \ {best})

SummaryOrderEarlierFirst(sentences) == RankEarlierFirst(sentences, 1..Len(sentences))

\* sentence_scores.sort(reverse=True) on the tuples (score, i, sentence):
\* descending by score and, among equal scores, descending by i
RECURSIVE RankDescending(_, _)
RankDescending(sentences, rest) ==
    IF rest = {} THEN <<>>
    ELSE LET best == CHOOSE i \in rest :
                        \A j \in rest :
                            \/ SentenceScore(sentences, i) > SentenceScore(sentences, j)
                            \/ /\ SentenceScore(sentences, i) = SentenceScore(sentences, j)
                               /\ i >= j
         IN  <<best>> \o RankDescending(sentences, rest \ {best})

\* the sentence numbers in the order of the sorted sentence_scores
SummaryOrder(sentences) == RankDescending(sentences, 1..Len(sentences))

\* sorted(sentence_scores[:max_sentences], key=lambda x: x[1]): the sentences
\* of the first max_sentences entries, in original order
SelectedSentences(sentences, order, max_sentences) ==
    LET selected == {order[k] : k \in 1..Min(max_sentences, Len(order))}
    IN  SelectSeq([i \in 1..Len(sentences) |-> IF i \in selected THEN sentences[i] ELSE ""],
                  LAMBDA sentence : sentence # "")

\* a summary that is put together from the selected sentences for every text
GenerateSummaryAlwaysSelect(text, max_sentences) ==
    Join(SelectedSentences(SentTokenize(text), SummaryOrder(SentTokenize(text)),
                           max_sentences))

\* _generate_summary
GenerateSummary(text, max_sentences) ==
    IF Len(SentTokenize(text)) <= max_sentences THEN text
    ELSE Join(SelectedSentences(SentTokenize(text), SummaryOrder(SentTokenize(text)),
                                max_sentences))

\* _process_document: the stored document
ProcessDocument(file, file_name) ==
    [file_name |-> file_name,
     sentences |-> file.sentences,
     chunks    |-> SplitIntoChunks(file.sentences, 500, 50),
     metadata  |-> [sentence_count |-> Len(file.sentences),
                    chunk_count |-> Len(SplitIntoChunks(file.sentences, 500, 50))]]

NoDocument == [file_name |-> None, sentences |-> <<>>, chunks |-> <<>>,
               metadata |-> [sentence_count |-> 0, chunk_count |-> 0]]

\* how far load_pdf gets: "extract" (extraction raises), "blank" (no text),
\* "index" (_create_faiss_index raises on the empty embedding array of a
\* document without chunks: embeddings.shape[1]), "done"
LoadPdfStage(file) ==
    IF ~file.readable THEN "extract"
    ELSE IF file.blank THEN "blank"
    ELSE IF Len(file.sentences) = 0 THEN "index"
    ELSE "done"

\* the result of load_pdf
LoadPdfResult(file, file_name) ==
    IF LoadPdfStage(file) = "extract" THEN [error |-> "Failed to process PDF"]
    ELSE IF LoadPdfStage(file) = "blank" THEN [error |-> "No text content found in PDF"]
    ELSE IF LoadPdfStage(file) = "index" THEN [error |-> "Failed to process PDF"]
    ELSE [success |-> TRUE, message |-> "Successfully processed",
          info |-> [file_name |-> file_name,
                    total_chunks |-> Len(ProcessDocument(file, file_name).chunks)]]

\* the three maps after load_pdf(file_path, file_name)
LoadPdfDocuments(file, file_name) ==
    IF LoadPdfStage(file) \in {"index", "done"}
    THEN DictSet(documents, file_name, ProcessDocument(file, file_name))
    ELSE documents

\* _generate_embeddings: one vector per chunk, named by the chunk's text
LoadPdfEmbeddings(file, file_name) ==
    IF LoadPdfStage(file) \in {"index", "done"}
    THEN DictSet(embeddings, file_name,
                 [i \in 1..Len(ProcessDocument(file, file_name).chunks) |->
                     ProcessDocument(file, file_name).chunks[i].text])
    ELSE embeddings

\* _create_faiss_index: the index holds the vectors added to it
LoadPdfIndexes(file, file_name) ==
    IF LoadPdfStage(file) = "done"
    THEN DictSet(faiss_indexes, file_name,
                 [i \in 1..Len(ProcessDocument(file, file_name).chunks) |->
                     ProcessDocument(file, file_name).chunks[i].text])
    ELSE faiss_indexes

----------------------------------------------------------------------------
(* ResearchAssistantAgent: queries on the document store *)

\* the space-separated words of a string
RECURSIVE Words(_)
Words(s) ==
    LET spaces == {i \in 1..Len(s) : SubSeq(s, i, i) = " "}
    IN  IF Len(s) = 0 THEN <<>>
        ELSE IF spaces = {} THEN <<s>>
        ELSE LET i == CHOOSE j \in spaces : \A k \in spaces : j <= k
             IN  (IF i > 1 THEN <<SubSeq(s, 1, i - 1)>> ELSE <<>>)
                     \o Words(SubSeq(s, i + 1, Len(s)))

\* The inner product of the normalised embeddings of a query and a chunk
\* text.  The embedding model is a fixed function outside the repository;
\* it is stood in for by the number of query words that occur in the text.
Similarity(query, text) ==
    LET w == Words(Lower(query))
    IN  Cardinality({i \in 1..Len(w) : Contains(w[i], Lower(text))})

\* the similarity of the query to every vector of the index
IndexScores(index, query) == [i \in 1..Len(index) |-> Similarity(query, index[i])]

\* the top_k (score, idx) pairs of the vectors taken in the given order; idx
\* is 0-based, and -1 with the lowest score fills the places for which the
\* index has no vector
RankedHits(scores, order, top_k) ==
    [i \in 1..top_k |->
        IF i <= Len(order) THEN [score |-> scores[order[i]], idx |-> order[i] - 1]
        ELSE [score |-> 0 - 1, idx |-> 0 - 1]]

\* index.search(query_embedding, top_k): top_k (score, idx) pairs by
\* decreasing score
IndexSearch(index, query, top_k) ==
    RankedHits(IndexScores(index, query),
               SortedRows(IndexScores(index, query), 1..Len(index), TRUE), top_k)

\* chunks[idx] with Python indexing: a negative idx counts from the end
ChunkAt(chunks, idx) == IF idx < 0 THEN chunks[Len(chunks) + idx + 1] ELSE chunks[idx + 1]

\* chunks[idx] raises IndexError for some returned idx that passes the test
\* idx < len(chunks): a negative idx on too short a list
LookupRaises(chunks, hits) ==
    \E i \in 1..Len(hits) : hits[i].idx < 0 /\ 0 - hits[i].idx > Len(chunks)

\* doc['chunks'][idx] raises in the search of one document
HitRaises(docs, indexes, doc_name, query, top_k) ==
    LookupRaises(DictGet(docs, doc_name, NoDocument).chunks,
                 IndexSearch(DictGet(indexes, doc_name, <<>>), query, top_k))

\* the search loop raises: a document without index, or a failing chunk lookup
SearchRaises(docs, indexes, query, top_k) ==
    \E i \in 1..Len(docs) :
        \/ ~HasKey(indexes, docs[i].key)
        \/ HitRaises(docs, indexes, docs[i].key, query, top_k)

\* relevant_chunks of one document from hit i on: every returned idx below
\* len(chunks)
RECURSIVE RelevantChunks(_, _, _, _)
RelevantChunks(chunks, hits, doc_name, i) ==
    IF i > Len(hits) THEN <<>>
    ELSE (IF hits[i].idx < Len(chunks)
          THEN <<[text |-> ChunkAt(chunks, hits[i].idx).text,
                  sentences |-> ChunkAt(chunks, hits[i].idx).sentences,
                  score |-> hits[i].score,
                  chunk_id |-> ChunkAt(chunks, hits[i].idx).chunk_id,
                  document |-> doc_name]>>
          ELSE <<>>) \o RelevantChunks(chunks, hits, doc_name, i + 1)

\* the hits one document contributes
DocumentHits(docs, indexes, doc_name, query, top_k) ==
    RelevantChunks(DictGet(docs, doc_name, NoDocument).chunks,
                   IndexSearch(DictGet(indexes, doc_name, <<>>), query, top_k),
                   doc_name, 1)

\* the hits of all documents, in document order
RECURSIVE AllHits(_, _, _, _, _)
AllHits(docs, indexes, doc_names, query, top_k) ==
    IF Len(doc_names) = 0 THEN <<>>
    ELSE DocumentHits(docs, indexes, doc_names[1], query, top_k)
             \o AllHits(docs, indexes, Tail(doc_names), query, top_k)

\* the elements of all in the given order
Permuted(all, order) == [i \in 1..Len(order) |-> all[order[i]]]

\* all_results.sort(key=score, reverse=True): stable
SortByScore(all) ==
    Permuted(all, SortedRows([i \in 1..Len(all) |-> all[i].score], 1..Len(all), TRUE))

\* the hits of all documents, sorted by decreasing score
SortedHits(docs, indexes, query, top_k) ==
    SortByScore(AllHits(docs, indexes, DictKeys(docs), query, top_k))

RECURSIVE Flatten(_)
Flatten(seqs) == IF Len(seqs) = 0 THEN <<>> ELSE seqs[1] \o Flatten(Tail(seqs))

\* first sentence containing one of the words, or None
FirstSentenceWith(sentences, words) ==
    LET hit == {i \in 1..Len(sentences) : AnyIn(words, Lower(sentences[i]))}
    IN  IF hit = {} THEN None
        ELSE sentences[CHOOSE i \in hit : \A j \in hit : i <= j]

\* an answer that goes on to the later tiers when a tier finds no sentence
GenerateAnswerFallThrough(question, sentences) ==
    LET question_lower == Lower(question)
        definition == IF AnyIn(<<"what is", "define", "definition">>, question_lower)
                      THEN FirstSentenceWith(sentences, <<"is", "are", "defined", "refers">>)
                      ELSE None
        method == IF AnyIn(<<"how", "method", "approach">>, question_lower)
                  THEN FirstSentenceWith(sentences,
                                         <<"method", "approach", "technique", "process">>)
                  ELSE None
        result == IF AnyIn(<<"result", "conclusion", "finding">>, question_lower)
                  THEN FirstSentenceWith(sentences,
                                         <<"result", "conclusion", "found", "showed">>)
                  ELSE None
    IN  IF definition # None THEN definition
        ELSE IF method # None THEN method
        ELSE IF result # None THEN result
        ELSE IF Len(sentences) > 0 THEN sentences[1]
        ELSE "I couldn't find a specific answer to your question in the loaded documents."

\* _generate_answer over the sentences of the context
GenerateAnswer(question, sentences) ==
    LET question_lower == Lower(question)
        tier == IF AnyIn(<<"what is", "define", "definition">>, question_lower)
                THEN FirstSentenceWith(sentences, <<"is", "are", "defined", "refers">>)
                ELSE IF AnyIn(<<"how", "method", "approach">>, question_lower)
                THEN FirstSentenceWith(sentences,
                                       <<"method", "approach", "technique", "process">>)
                ELSE IF AnyIn(<<"result", "conclusion", "finding">>, question_lower)
                THEN FirstSentenceWith(sentences,
                                       <<"result", "conclusion", "found", "showed">>)
                ELSE None
    IN  IF tier # None THEN tier
        ELSE IF Len(sentences) > 0 THEN sentences[1]
        ELSE "I couldn't find a specific answer to your question in the loaded documents."

\* all_results[:top_k]
TopResults(sorted, top_k) == SubSeq(sorted, 1, Min(top_k, Len(sorted)))

\* the result answer_question builds from its top results
AnswerResult(question, top_results, documents_searched) ==
    [success |-> TRUE,
     answer |-> GenerateAnswer(question,
                    Flatten([i \in 1..Len(top_results) |-> top_results[i].sentences])),
     relevant_chunks |-> top_results,
     question |-> question,
     documents_searched |-> documents_searched]

\* answer_question(question) with the default document_name and top_k, on
\* an agent whose documents and faiss_indexes are docs and indexes
AnswerQuestion(docs, indexes, question) ==
    IF Len(docs) = 0 THEN [error |-> "No documents loaded"]
    ELSE IF SearchRaises(docs, indexes, question, 3)
    THEN [error |-> "Failed to answer question"]
    ELSE AnswerResult(question, TopResults(SortedHits(docs, indexes, question, 3), 3),
                      DictKeys(docs))

\* the result search_documents builds from its sorted hits
SearchResult(query, sorted, top_k) ==
    [success |-> TRUE,
     query |-> query,
     results |-> TopResults(sorted, top_k),
     total_results |-> Len(sorted)]

\* search_documents(query) with the default top_k
SearchDocuments(docs, indexes, query) ==
    IF Len(docs) = 0 THEN [error |-> "No documents loaded"]
    ELSE IF SearchRaises(docs, indexes, query, 5) THEN [error |-> "Search failed"]
    ELSE SearchResult(query, SortedHits(docs, indexes, query, 5), 5)

\* summarize_document
SummarizeDocument(docs, document_name) ==
    IF ~HasKey(docs, document_name)
    THEN [error |-> "Document not found"]
    ELSE [success |-> TRUE, document_name |-> document_name,
          metadata |-> DictGet(docs, document_name, NoDocument).metadata]

\* answer_question(question, document_name): the search covers the named
\* document when it is stored, and every document otherwise
AnswerQuestionIn(docs, indexes, question, document_name) ==
    AnswerQuestion(IF document_name # None /\ document_name # ""
                          /\ HasKey(docs, document_name)
                   THEN SelectSeq(docs, LAMBDA entry : entry.key = document_name)
                   ELSE docs,
                   indexes, question)

\* get_document_info
GetDocumentInfo(docs, document_name) ==
    IF ~HasKey(docs, document_name)
    THEN [error |-> "Document not found"]
    ELSE [success |-> TRUE,
          document_info |->
              [name |-> document_name,
               metadata |-> DictGet(docs, document_name, NoDocument).metadata,
               sample_chunks |->
                   [i \in 1..Min(3, Len(DictGet(docs, document_name, NoDocument).chunks)) |->
                       DictGet(docs, document_name, NoDocument).chunks[i].text]]]

----------------------------------------------------------------------------
(* OrchestratorAgent: routing *)

NoDataFile == DataFile("", FALSE, NoFrame)
NoPdfFile  == PdfFile(FALSE, TRUE, <<>>)

\* A pending_*_file entry of the context: complete says that it has both
\* its 'path' and its 'name' key; file is what lies at the path.
Pending(complete, name, file) == [complete |-> complete, name |-> name, file |-> file]

Context(present, keys, lds, ldocs, pdata, ppdf) ==
    [present |-> present, keys |-> keys, loaded_datasets |-> lds, loaded_documents |-> ldocs,
     pending_data_file |-> pdata, pending_pdf_file |-> ppdf]

\* `not self.data_agent.data_storage and context and context.get('pending_data_file')`
NeedsDataLoad(context) ==
    Len(data_storage) = 0 /\ ContextTruthy(context) /\ "pending_data_file" \in context.keys

\* `not self.research_agent.documents and context and context.get('pending_pdf_file')`
NeedsPdfLoad(context) ==
    Len(documents) = 0 /\ ContextTruthy(context) /\ "pending_pdf_file" \in context.keys

\* the pending load of _route_to_data_agent is performed and succeeds
DataLoadDone(context) ==
    /\ NeedsDataLoad(context)
    /\ context.pending_data_file.complete
    /\ ~LoadDataFails(context.pending_data_file.file)

\* the pending load of _route_to_research_agent is performed (load_pdf is called)
PdfLoadCalled(context) ==
    NeedsPdfLoad(context) /\ context.pending_pdf_file.complete

\* _route_to_data_agent: the result.  post holds the agents' maps as the
\* pending load, if one was made, left them; the query runs on those.
RouteToDataAgent(query, context, post) ==
    IF NeedsDataLoad(context) /\ ~context.pending_data_file.complete
    THEN [error |-> "Data agent failed"]
    ELSE IF NeedsDataLoad(context) /\ LoadDataFails(context.pending_data_file.file)
    THEN LoadDataResult(context.pending_data_file.file, context.pending_data_file.name)
    ELSE WithKey(DataProcessQueryOn(post.data_storage, post.dataset_info,
                                    post.current_dataset, query, None),
                 "agent", "data_intelligence")

\* the query part of _route_to_research_agent
ResearchQuery(docs, indexes, query) ==
    IF AnyIn(<<"summarize", "summary", "abstract">>, Lower(query))
    THEN IF Len(docs) > 0
         THEN SummarizeDocument(docs, DictKeys(docs)[1])
         ELSE [error |-> "No documents loaded for summarization"]
    ELSE IF AnyIn(<<"search", "find", "locate">>, Lower(query))
    THEN SearchDocuments(docs, indexes, query)
    ELSE AnswerQuestion(docs, indexes, query)

\* _route_to_research_agent: the result.  post holds the agents' maps as
\* the pending load, if one was made, left them; the query runs on those.
RouteToResearchAgent(query, context, post) ==
    IF NeedsPdfLoad(context) /\ ~context.pending_pdf_file.complete
    THEN [error |-> "Research agent failed"]
    ELSE IF NeedsPdfLoad(context) /\ LoadPdfStage(context.pending_pdf_file.file) # "done"
    THEN LoadPdfResult(context.pending_pdf_file.file, context.pending_pdf_file.name)
    ELSE WithKey(ResearchQuery(post.documents, post.faiss_indexes, query),
                 "agent", "research_assistant")

\* _get_system_status
GetSystemStatus ==
    [success |-> TRUE,
     system_status |-> [loaded_datasets |-> DictKeys(data_storage),
                        loaded_documents |-> DictKeys(documents),
                        data_agent_ready |-> Len(data_storage) > 0,
                        research_agent_ready |-> Len(documents) > 0]]

\* _handle_general_query with the help answer returned without its success flag
OrchestratorGeneralQueryNoFlag(query, context) ==
    IF AnyIn(<<"help", "what can you do", "capabilities">>, Lower(query))
    THEN [message |-> "I'm a multi-agent AI system that can help with:",
          capabilities |-> 3, examples |-> 3]
    ELSE IF AnyIn(<<"status", "what is loaded", "files">>, Lower(query))
    THEN GetSystemStatus
    ELSE [message |-> "I'm not sure how to help with that.",
          suggestions |-> 3]

\* _handle_general_query
OrchestratorGeneralQuery(query, context) ==
    IF AnyIn(<<"help", "what can you do", "capabilities">>, Lower(query))
    THEN [success |-> TRUE,
          message |-> "I'm a multi-agent AI system that can help with:",
          capabilities |-> 3, examples |-> 3]
    ELSE IF AnyIn(<<"status", "what is loaded", "files">>, Lower(query))
    THEN GetSystemStatus
    ELSE [message |-> "I'm not sure how to help with that.",
          suggestions |-> 3]

\* where _handle_ambiguous_query sends the query, always asking the user
AmbiguousTargetAlwaysAsk == IF Len(data_storage) > 0 \/ Len(documents) > 0 THEN "both" ELSE "neither"

\* where _handle_ambiguous_query sends the query, testing has_data alone first
AmbiguousTargetDataFirst ==
    LET has_data == Len(data_storage) > 0
        has_docs == Len(documents) > 0
    IN  IF has_data THEN "data"
        ELSE IF has_docs THEN "research"
        ELSE "neither"

\* where _handle_ambiguous_query sends the query, from what the stores hold
AmbiguousTarget ==
    LET has_data == Len(data_storage) > 0
        has_docs == Len(documents) > 0
    IN  IF has_data /\ ~has_docs THEN "data"
        ELSE IF has_docs /\ ~has_data THEN "research"
        ELSE IF has_data /\ has_docs THEN "both"
        ELSE "neither"

\* the branch process_query takes for a classification
Route(query_type) ==
    IF query_type = DATA_ANALYSIS THEN "data"
    ELSE IF query_type = RESEARCH_QUERY THEN "research"
    ELSE IF query_type = AMBIGUOUS THEN AmbiguousTarget
    ELSE "general"

\* _get_agent_name
GetAgentName(query_type) ==
    IF query_type = DATA_ANALYSIS THEN "Data Intelligence Agent"
    ELSE IF query_type = RESEARCH_QUERY THEN "Research Assistant Agent"
    ELSE "Orchestrator Agent"

\* the metadata added to results that are not errors only
AddOrchestratorInfoUnlessError(result, cls) ==
    IF "error" \in DOMAIN result THEN result
    ELSE WithKey(result, "orchestrator_info",
                 [query_type |-> cls.query_type, confidence |-> cls.confidence,
                  reasoning |-> cls.reasoning, agent_used |-> GetAgentName(cls.query_type)])

\* result['orchestrator_info'] = {...}
AddOrchestratorInfo(result, cls) ==
    WithKey(result, "orchestrator_info",
            [query_type |-> cls.query_type, confidence |-> cls.confidence,
             reasoning |-> cls.reasoning, agent_used |-> GetAgentName(cls.query_type)])

\* the result of the handler process_query dispatches to
HandlerResult(route, query, context, post) ==
    IF route = "data" THEN RouteToDataAgent(query, context, post)
    ELSE IF route = "research" THEN RouteToResearchAgent(query, context, post)
    ELSE IF route = "both"
    THEN [ambiguous |-> TRUE,
          message |-> "Your query could apply to both data analysis and research documents.",
          suggestions |-> <<"For data analysis: " \o query \o " (from data files)",
                            "For research: " \o query \o " (from documents)">>,
          available_data |-> DictKeys(data_storage),
          available_documents |-> DictKeys(documents)]
    ELSE IF route = "neither"
    THEN [error |-> "No data files or documents loaded. Please upload files first.",
          suggestion |-> "Upload CSV/Excel files for data analysis or PDF files for research queries"]
    ELSE OrchestratorGeneralQuery(query, context)

----------------------------------------------------------------------------
(* Inputs *)

MaxQueries     == 7    \* queries offered to OrchestratorAgent.process_query
MaxContexts    == 6    \* context maps offered to OrchestratorAgent.process_query
MaxDataQueries == 4    \* queries offered to DataIntelligenceAgent.process_query
MaxMemoQueries == 3    \* queries of the calls whose classifications are compared

AllQueries ==
    << "what is this",
       "Convert this .CSV to .pdf",
       "Summarize the paper",
       "show a bar chart plot of sales data",
       "find and explain how and why: describe what",
       "what is loaded",
       "help",
       "total revenue",
       "locate the Spreadsheet" >>

AllDataQueries ==
    << "what is the total Revenue",
       "describe the dataset",
       "top 3 by Revenue",
       "show a pie chart of revenue",
       "lowest units",
       "revenue trend over time" >>

Prefix(all, n) == {all[i] : i \in 1..Min(n, Len(all))}

Queries     == Prefix(AllQueries, MaxQueries)
DataQueries == Prefix(AllDataQueries, MaxDataQueries)
MemoQueries == Prefix(AllQueries, MaxMemoQueries)

DatasetNames == {"sales.csv", "costs.xlsx"}

SalesFile  == DataFile("/tmp/up/sales.csv", TRUE, SalesFrame)
CostsFile  == DataFile("/tmp/up/costs.XLSX", TRUE, CostsFrame)
NotesFile  == DataFile("/tmp/up/notes.v2.xls", TRUE, NotesFrame)
BrokenFile == DataFile("/tmp/up/broken.csv", FALSE, NoFrame)
TextFile   == DataFile("/tmp/up.d/readme", TRUE, NotesFrame)

DataFiles == {SalesFile, CostsFile, NotesFile, BrokenFile, TextFile}

PaperPdf      == PdfFile(TRUE, FALSE, <<"Deep learning is a method for vision.",
                                        "The results showed large gains.">>)
SymbolsPdf    == PdfFile(TRUE, FALSE, <<>>)
BlankPdf      == PdfFile(TRUE, TRUE, <<>>)
UnreadablePdf == PdfFile(FALSE, TRUE, <<>>)

PdfFiles == {PaperPdf, SymbolsPdf, BlankPdf, UnreadablePdf}

NoPendingData == Pending(FALSE, None, NoDataFile)
NoPendingPdf  == Pending(FALSE, None, NoPdfFile)

NoContext == Context(FALSE, {}, <<>>, <<>>, NoPendingData, NoPendingPdf)

BothLoadedContext ==
    Context(TRUE, {"loaded_datasets", "loaded_documents"},
            <<"sales.csv">>, <<"a.pdf">>, NoPendingData, NoPendingPdf)

AllContexts ==
    << BothLoadedContext,
       NoContext,
       Context(TRUE, {"pending_data_file", "pending_pdf_file", "loaded_datasets",
                      "loaded_documents"},
               <<"sales.csv">>, <<"a.pdf">>,
               Pending(TRUE, "sales.csv", SalesFile), Pending(TRUE, "a.pdf", PaperPdf)),
       Context(TRUE, {"pending_data_file", "pending_pdf_file", "loaded_datasets",
                      "loaded_documents"},
               <<"sales.csv">>, <<"a.pdf">>,
               Pending(TRUE, "sales.csv", BrokenFile), Pending(TRUE, "a.pdf", SymbolsPdf)),
       Context(TRUE, {"loaded_datasets"}, <<"sales.csv">>, <<>>, NoPendingData, NoPendingPdf),
       Context(TRUE, {"loaded_documents", "pending_data_file", "pending_pdf_file"},
               <<>>, <<"a.pdf">>,
               Pending(FALSE, None, NoDataFile), Pending(FALSE, None, NoPdfFile)),
       Context(TRUE, {}, <<>>, <<>>, NoPendingData, NoPendingPdf),
       Context(TRUE, {"loaded_datasets", "loaded_documents"}, <<>>, <<>>,
               NoPendingData, NoPendingPdf) >>

Contexts     == Prefix(AllContexts, MaxContexts)
MemoContexts == {BothLoadedContext, NoContext}

----------------------------------------------------------------------------
(* The state machine *)

NoClassification == Classification(None, 0, "", 0)

Call(op, query, context, name, cls, route, had_data, had_docs, result) ==
    [op |-> op, query |-> query, context |-> context, name |-> name, cls |-> cls,
     route |-> route, had_data |-> had_data, had_docs |-> had_docs, result |-> result]

NoMemo ==
    [set |-> FALSE, query |-> "", context |-> NoContext, cls |-> NoClassification,
     had_data |-> FALSE, had_docs |-> FALSE]

\* loaded with name bound to frame
Record(name, frame) ==
    [n \in (DOMAIN loaded) \cup {name} |-> IF n = name THEN frame ELSE loaded[n]]

Init ==
    /\ data_storage = <<>>
    /\ dataset_info = <<>>
    /\ current_dataset = None
    /\ documents = <<>>
    /\ embeddings = <<>>
    /\ faiss_indexes = <<>>
    /\ last = Call("init", "", NoContext, None, NoClassification, "", FALSE, FALSE,
                   [success |-> TRUE])
    /\ memo = NoMemo
    /\ loaded = <<>>

\* DataIntelligenceAgent.load_data(file_path, file_name)
LoadData(file, file_name) ==
    /\ data_storage' = LoadDataStorage(file, file_name)
    /\ current_dataset' = LoadDataCurrent(file, file_name)
    /\ dataset_info' = LoadDataInfo(file, file_name)
    /\ loaded' = IF LoadDataFails(file) THEN loaded ELSE Record(file_name, file.frame)
    /\ last' = Call("load_data", "", NoContext, file_name, NoClassification, "",
                    Len(data_storage) > 0, Len(documents) > 0,
                    LoadDataResult(file, file_name))
    /\ UNCHANGED <<documents, embeddings, faiss_indexes, memo>>

\* ResearchAssistantAgent.load_pdf(file_path, file_name)
LoadPdf(file, file_name) ==
    /\ documents' = LoadPdfDocuments(file, file_name)
    /\ embeddings' = LoadPdfEmbeddings(file, file_name)
    /\ faiss_indexes' = LoadPdfIndexes(file, file_name)
    /\ last' = Call("load_pdf", "", NoContext, file_name, NoClassification, "",
                    Len(data_storage) > 0, Len(documents) > 0,
                    LoadPdfResult(file, file_name))
    /\ UNCHANGED <<data_storage, dataset_info, current_dataset, memo, loaded>>

\* clear_all_data without the clear of the index map
ClearAllDataKeepIndexes ==
    /\ data_storage' = <<>>
    /\ dataset_info' = <<>>
    /\ documents' = <<>>
    /\ embeddings' = <<>>
    /\ loaded' = <<>>
    /\ last' = Call("clear_all_data", "", NoContext, None, NoClassification, "",
                    Len(data_storage) > 0, Len(documents) > 0,
                    [success |-> TRUE, message |-> "All data and documents cleared"])
    /\ UNCHANGED <<current_dataset, faiss_indexes, memo>>

\* OrchestratorAgent.clear_all_data()
ClearAllData ==
    /\ data_storage' = <<>>
    /\ dataset_info' = <<>>
    /\ documents' = <<>>
    /\ embeddings' = <<>>
    /\ faiss_indexes' = <<>>
    /\ loaded' = <<>>
    /\ last' = Call("clear_all_data", "", NoContext, None, NoClassification, "",
                    Len(data_storage) > 0, Len(documents) > 0,
                    [success |-> TRUE, message |-> "All data and documents cleared"])
    /\ UNCHANGED <<current_dataset, memo>>

\* list_documents: one entry per stored document
ListDocuments ==
    [i \in 1..Len(documents) |->
        [name |-> documents[i].key,
         chunk_count |-> documents[i].value.metadata.chunk_count]]

\* OrchestratorAgent.get_loaded_files()
GetLoadedFiles ==
    /\ last' = Call("get_loaded_files", "", NoContext, None, NoClassification, "",
                    Len(data_storage) > 0, Len(documents) > 0,
                    [datasets |-> ListDatasets, documents |-> ListDocuments])
    /\ UNCHANGED <<data_storage, dataset_info, current_dataset, documents, embeddings,
                   faiss_indexes, memo, loaded>>

\* DataIntelligenceAgent.process_query(query, dataset_name)
DataQuery(query, dataset_name) ==
    /\ last' = Call("data_process_query", query, NoContext, dataset_name,
                    NoClassification, "", Len(data_storage) > 0, Len(documents) > 0,
                    DataProcessQuery(query, dataset_name))
    /\ UNCHANGED <<data_storage, dataset_info, current_dataset, documents, embeddings,
                   faiss_indexes, memo, loaded>>

\* the agents' maps when the pending files are loaded on every route
AfterPendingLoadAnyRoute(route, context) ==
    LET dload == DataLoadDone(context)
        pload == PdfLoadCalled(context)
        dfile == context.pending_data_file
        pfile == context.pending_pdf_file
    IN  [data_storage    |-> IF dload THEN LoadDataStorage(dfile.file, dfile.name)
                             ELSE data_storage,
         current_dataset |-> IF dload THEN LoadDataCurrent(dfile.file, dfile.name)
                             ELSE current_dataset,
         dataset_info    |-> IF dload THEN LoadDataInfo(dfile.file, dfile.name)
                             ELSE dataset_info,
         loaded          |-> IF dload THEN Record(dfile.name, dfile.file.frame) ELSE loaded,
         documents       |-> IF pload THEN LoadPdfDocuments(pfile.file, pfile.name)
                             ELSE documents,
         embeddings      |-> IF pload THEN LoadPdfEmbeddings(pfile.file, pfile.name)
                             ELSE embeddings,
         faiss_indexes   |-> IF pload THEN LoadPdfIndexes(pfile.file, pfile.name)
                             ELSE faiss_indexes]

\* the agents' maps after the pending load process_query makes on a route
\* (none on the other routes)
AfterPendingLoad(route, context) ==
    LET dload == route = "data" /\ DataLoadDone(context)
        pload == route = "research" /\ PdfLoadCalled(context)
        dfile == context.pending_data_file
        pfile == context.pending_pdf_file
    IN  [data_storage    |-> IF dload THEN LoadDataStorage(dfile.file, dfile.name)
                             ELSE data_storage,
         current_dataset |-> IF dload THEN LoadDataCurrent(dfile.file, dfile.name)
                             ELSE current_dataset,
         dataset_info    |-> IF dload THEN LoadDataInfo(dfile.file, dfile.name)
                             ELSE dataset_info,
         loaded          |-> IF dload THEN Record(dfile.name, dfile.file.frame) ELSE loaded,
         documents       |-> IF pload THEN LoadPdfDocuments(pfile.file, pfile.name)
                             ELSE documents,
         embeddings      |-> IF pload THEN LoadPdfEmbeddings(pfile.file, pfile.name)
                             ELSE embeddings,
         faiss_indexes   |-> IF pload THEN LoadPdfIndexes(pfile.file, pfile.name)
                             ELSE faiss_indexes]

\* OrchestratorAgent.process_query(query, context); keep: remember this
\* call's classification in memo
ProcessQuery(query, context, keep) ==
    \E cls \in {ClassifyQuery(query, context)} :
    \E route \in {Route(cls.query_type)} :
    \E post \in {AfterPendingLoad(route, context)} :
        /\ data_storage' = post.data_storage
        /\ current_dataset' = post.current_dataset
        /\ dataset_info' = post.dataset_info
        /\ loaded' = post.loaded
        /\ documents' = post.documents
        /\ embeddings' = post.embeddings
        /\ faiss_indexes' = post.faiss_indexes
        /\ last' = Call("process_query", query, context, None, cls, route,
                        Len(data_storage) > 0, Len(documents) > 0,
                        AddOrchestratorInfo(HandlerResult(route, query, context, post), cls))
        /\ memo' = IF keep
                   THEN [set |-> TRUE, query |-> query, context |-> context, cls |-> cls,
                         had_data |-> Len(data_storage) > 0,
                         had_docs |-> Len(documents) > 0]
                   ELSE memo

\* the orchestrator with both agents behind it
Next ==
    \/ \E file \in {SalesFile, BrokenFile} : LoadData(file, "sales.csv")
    \/ \E file \in PdfFiles : LoadPdf(file, "a.pdf")
    \/ ClearAllData
    \/ GetLoadedFiles
    \/ \E query \in Queries, context \in Contexts : ProcessQuery(query, context, FALSE)

Spec == Init /\ [][Next]_vars

\* the DataIntelligenceAgent and the bulk clear
NextData ==
    \/ \E file \in DataFiles, name \in DatasetNames : LoadData(file, name)
    \/ ClearAllData
    \/ \E query \in DataQueries, name \in DatasetNames \cup {None, ""} :
           DataQuery(query, name)

SpecData == Init /\ [][NextData]_vars

\* the orchestrator, remembering one earlier classification
NextMemo ==
    \/ LoadData(SalesFile, "sales.csv")
    \/ LoadPdf(PaperPdf, "a.pdf")
    \/ ClearAllData
    \/ \E query \in MemoQueries, context \in MemoContexts, keep \in BOOLEAN :
           ProcessQuery(query, context, keep)

SpecMemo == Init /\ [][NextMemo]_vars

\* _classify_query as a function of its inputs: every query, every context
ClassifyQueries ==
    Prefix(AllQueries, Len(AllQueries)) \cup
    { "total sum average mean count maximum minimum plot chart graph visualize trend "
          \o "sales revenue profit expense customer product data csv table column row "
          \o "filter sort group aggregate load upload import export save delete show "
          \o "display bar line pie scatter histogram",
      "study the article and the journal publication abstract",
      "what where when" }

InitClassify ==
    /\ data_storage = <<>>
    /\ dataset_info = <<>>
    /\ current_dataset = None
    /\ documents = <<>>
    /\ embeddings = <<>>
    /\ faiss_indexes = <<>>
    /\ memo = NoMemo
    /\ loaded = <<>>
    /\ \E query \in ClassifyQueries, context \in Prefix(AllContexts, Len(AllContexts)) :
           last = Call("input", query, context, None, NoClassification, "", FALSE, FALSE,
                       [success |-> TRUE])

ClassifyCall ==
    /\ last.op = "input"
    /\ last' = [last EXCEPT !.op = "_classify_query",
                            !.cls = ClassifyQuery(last.query, last.context)]
    /\ UNCHANGED <<data_storage, dataset_info, current_dataset, documents, embeddings,
                   faiss_indexes, memo, loaded>>

NextClassify == ClassifyCall

SpecClassify == InitClassify /\ [][NextClassify]_vars

\* the handlers of the DataIntelligenceAgent on one loaded dataset
ShipmentsFile == DataFile("/tmp/up/shipments.csv", TRUE, ShipmentsFrame)
FlagsFile     == DataFile("/tmp/up/flags.xlsx", TRUE, FlagsFrame)

EventsFile    == DataFile("/tmp/up/events.csv", TRUE, EventsFrame)
DaysFile      == DataFile("/tmp/up/days.csv", TRUE, DaysFrame)

HandlerFiles == {SalesFile, CostsFile, NotesFile, ShipmentsFile, FlagsFile, EventsFile,
                 DaysFile}

HandlerQueries ==
    { "what is the total Revenue",
      "total revenue by region",
      "average of everything",
      "total and average revenue",
      "the highest revenue, shown as a trend",
      "what is the minimum date",
      "count the top regions",
      "show revenue trend over time",
      "plot it",
      "plot revenue",
      "the timeline",
      "top 3 by Revenue",
      "top by Revenue",
      "Top 2 by revenue where 10 apply",
      "bottom 2 by units",
      "Bottom 2 with the lowest units",
      "the lowest 2, ranked by units",
      "rank everything",
      "top 1 opened",
      "filter rows",
      "describe the dataset" }

NextHandlers ==
    \/ \E file \in HandlerFiles : LoadData(file, "data.csv")
    \/ \E query \in HandlerQueries : DataQuery(query, None)

SpecHandlers == Init /\ [][NextHandlers]_vars

\* the text functions of the ResearchAssistantAgent, one call at a time
Texts ==
    { "",
      "Chunking keeps every sentence.",
      "Short one.  Tiny two.",
      "One here. Two there. Three everywhere.",
      "Alpha is first. Beta came next! Gamma followed them. Delta closed it.",
      "Gradient descent helped. We used a new method. The third sentence of the text goes on for more than fifty symbols. The results showed gains.",
      "Tiny start. Then the one sentence that was far longer than the budget. End? Yes." }

ChunkSizes == {25, 60, 500}

Overlaps == {0, 50, 75}

SummaryLengths == {1, 2, 3}

Questions ==
    { "What is the method?",
      "How was it done?",
      "Which conclusion and what definition?",
      "What were the findings?",
      "Tell me more" }

TextCall(op, text, args, result) ==
    [op |-> op, text |-> text, args |-> args, result |-> result]

SplitText(text, chunk_size, overlap) ==
    /\ last' = TextCall("split_into_chunks", text, <<chunk_size, overlap>>,
                        SplitIntoChunks(SentTokenize(text), chunk_size, overlap))
    /\ UNCHANGED <<data_storage, dataset_info, current_dataset, documents, embeddings,
                   faiss_indexes, memo, loaded>>

Summarize(text, max_sentences) ==
    /\ last' = TextCall("generate_summary", text, <<max_sentences>>,
                        GenerateSummary(text, max_sentences))
    /\ UNCHANGED <<data_storage, dataset_info, current_dataset, documents, embeddings,
                   faiss_indexes, memo, loaded>>

Answer(question, context) ==
    /\ last' = TextCall("generate_answer", context, <<question>>,
                        GenerateAnswer(question, SentTokenize(context)))
    /\ UNCHANGED <<data_storage, dataset_info, current_dataset, documents, embeddings,
                   faiss_indexes, memo, loaded>>

NextText ==
    \/ \E text \in Texts, chunk_size \in ChunkSizes, overlap \in Overlaps :
           SplitText(text, chunk_size, overlap)
    \/ \E text \in Texts, max_sentences \in SummaryLengths : Summarize(text, max_sentences)
    \/ \E question \in Questions, context \in Texts : Answer(question, context)

SpecText == Init /\ [][NextText]_vars

\* the ResearchAssistantAgent called directly, and the bulk clear
DocumentNames == {"a.pdf", "b.pdf"}

ResearchQuestions == {"What is deep learning?", "find the results", "Why?"}

ResearchCall(op, query, name, result) ==
    /\ last' = Call(op, query, NoContext, name, NoClassification, "",
                    Len(data_storage) > 0, Len(documents) > 0, result)
    /\ UNCHANGED <<data_storage, dataset_info, current_dataset, documents, embeddings,
                   faiss_indexes, memo, loaded>>

AnswerQuestionCall(question, document_name) ==
    ResearchCall("answer_question", question, document_name,
                 AnswerQuestionIn(documents, faiss_indexes, question, document_name))

SearchDocumentsCall(query) ==
    ResearchCall("search_documents", query, None,
                 SearchDocuments(documents, faiss_indexes, query))

\* summarize_document with a lookup that stores an empty document under a
\* name it does not find
SummarizeDocumentCallDefaulting(document_name) ==
    /\ last' = Call("summarize_document", "", NoContext, document_name, NoClassification,
                    "", Len(data_storage) > 0, Len(documents) > 0,
                    SummarizeDocument(documents, document_name))
    /\ documents' = IF HasKey(documents, document_name) THEN documents
                    ELSE DictSet(documents, document_name, NoDocument)
    /\ UNCHANGED <<data_storage, dataset_info, current_dataset, embeddings,
                   faiss_indexes, memo, loaded>>

SummarizeDocumentCall(document_name) ==
    ResearchCall("summarize_document", "", document_name,
                 SummarizeDocument(documents, document_name))

ListDocumentsCall == ResearchCall("list_documents", "", None, ListDocuments)

GetDocumentInfoCall(document_name) ==
    ResearchCall("get_document_info", "", document_name,
                 GetDocumentInfo(documents, document_name))

NextResearch ==
    \/ \E file \in PdfFiles, name \in DocumentNames : LoadPdf(file, name)
    \/ ClearAllData
    \/ \E question \in ResearchQuestions, name \in DocumentNames \cup {None} :
           AnswerQuestionCall(question, name)
    \/ \E query \in ResearchQuestions : SearchDocumentsCall(query)
    \/ \E name \in DocumentNames : SummarizeDocumentCall(name)
    \/ ListDocumentsCall
    \/ \E name \in DocumentNames : GetDocumentInfoCall(name)

SpecResearch == Init /\ [][NextResearch]_vars

----------------------------------------------------------------------------
(* Properties of OrchestratorAgent.process_query, checked under Spec *)

\* C1: the result of every process_query call carries an orchestrator_info
\* entry made of exactly query_type, confidence, reasoning and agent_used,
\* holding the classification of that call, whichever handler ran and whether
\* or not the handler's result is an error.
C1_OrchestratorInfoOnEveryResult ==
    last.op = "process_query" =>
        /\ "orchestrator_info" \in DOMAIN last.result
        /\ DOMAIN last.result.orchestrator_info
               = {"query_type", "confidence", "reasoning", "agent_used"}
        /\ last.result.orchestrator_info.query_type = last.cls.query_type
        /\ last.result.orchestrator_info.confidence = last.cls.confidence
        /\ last.result.orchestrator_info.reasoning = last.cls.reasoning
        /\ last.result.orchestrator_info.agent_used
               \in {"Data Intelligence Agent", "Research Assistant Agent",
                    "Orchestrator Agent"}

\* a handler returned an error and the result still carries the metadata
C1_Witness ==
    /\ last.op = "process_query"
    /\ last.route = "data"
    /\ "error" \in DOMAIN last.result
    /\ "orchestrator_info" \in DOMAIN last.result

\* C2 as stated: every process_query result contains a success key or an
\* error key.
C2_SuccessOrErrorAlways ==
    last.op = "process_query" =>
        ("success" \in DOMAIN last.result \/ "error" \in DOMAIN last.result)

\* C2 as amended: a process_query result contains a success key or an error
\* key except in exactly two cases, in which it contains neither and carries a
\* message and suggestions instead: the clarification prompt of an Ambiguous
\* query asked while both stores are non-empty, and the fallback answer of a
\* General query that matches neither the help nor the status phrases.
C2_SuccessOrErrorExceptMessages ==
    LET keys == DOMAIN last.result
        prompt == last.cls.query_type = AMBIGUOUS /\ last.had_data /\ last.had_docs
        fallback ==
            /\ last.cls.query_type = GENERAL
            /\ ~AnyIn(<<"help", "what can you do", "capabilities", "status",
                        "what is loaded", "files">>, Lower(last.query))
    IN  last.op = "process_query" =>
            /\ ("success" \in keys \/ "error" \in keys) <=> ~(prompt \/ fallback)
            /\ (prompt \/ fallback) => {"message", "suggestions"} \subseteq keys

\* the clarification prompt: neither success nor error
C2_Witness ==
    /\ last.op = "process_query"
    /\ last.cls.query_type = AMBIGUOUS
    /\ last.had_data /\ last.had_docs
    /\ "success" \notin DOMAIN last.result
    /\ "error" \notin DOMAIN last.result
    /\ "message" \in DOMAIN last.result

\* C7: an Ambiguous query asked while exactly one store is non-empty is
\* answered by the agent of that store (the data agent when only datasets are
\* held, the research agent when only documents are held), and the result is
\* not a clarification prompt.
C7_AmbiguousOneStoreDispatches ==
    (last.op = "process_query" /\ last.cls.query_type = AMBIGUOUS
         /\ last.had_data # last.had_docs) =>
        /\ "agent" \in DOMAIN last.result
        /\ last.result.agent = (IF last.had_data THEN "data_intelligence"
                                ELSE "research_assistant")
        /\ "ambiguous" \notin DOMAIN last.result
        /\ "suggestions" \notin DOMAIN last.result

\* an Ambiguous query answered by the research agent, only documents being held
C7_Witness ==
    /\ last.op = "process_query"
    /\ last.cls.query_type = AMBIGUOUS
    /\ last.had_docs /\ ~last.had_data
    /\ "agent" \in DOMAIN last.result
    /\ last.result.agent = "research_assistant"
    /\ "success" \in DOMAIN last.result

----------------------------------------------------------------------------
(* Properties of _classify_query, checked under SpecClassify and SpecMemo *)

\* C3: without a file format word in the query, _classify_query decides from
\* the final scores t (data) and d (research): data_analysis with confidence
\* min(0.8, t) if t > d and t > 0.3; otherwise research_query with confidence
\* min(0.8, d) if d > t and d > 0.3; otherwise ambiguous with confidence 0.5
\* if |t - d| < 0.1 and max(t, d) > 0.2; otherwise general with confidence
\* 0.3; the category is always one of these four.
C3_DecisionFromFinalScores ==
    LET q == Lower(last.query)
        s == FinalScores(q, last.context)
        t == s.data
        d == s.research
        tab == t > d /\ 10 * t > 3 * Scale
        doc == ~tab /\ d > t /\ 10 * d > 3 * Scale
        amb == ~tab /\ ~doc /\ 10 * Abs(t - d) < Scale /\ 10 * Max(t, d) > 2 * Scale
        type == last.cls.query_type
        conf == last.cls.confidence
    IN  (last.op = "_classify_query" /\ ~AnyIn(data_formats, q)
             /\ ~AnyIn(research_formats, q)) =>
            /\ tab => type = DATA_ANALYSIS /\ 10 * conf = Min(8 * Scale, 10 * t)
            /\ doc => type = RESEARCH_QUERY /\ 10 * conf = Min(8 * Scale, 10 * d)
            /\ amb => type = AMBIGUOUS /\ 10 * conf = 5 * Scale
            /\ (~tab /\ ~doc /\ ~amb) => type = GENERAL /\ 10 * conf = 3 * Scale
            /\ type \in {DATA_ANALYSIS, RESEARCH_QUERY, AMBIGUOUS, GENERAL}

\* the second rule decides: research_query with its score, below the cap, as
\* the confidence
C3_Witness ==
    /\ last.op = "_classify_query"
    /\ ~AnyIn(data_formats, Lower(last.query))
    /\ ~AnyIn(research_formats, Lower(last.query))
    /\ last.cls.query_type = RESEARCH_QUERY
    /\ last.cls.confidence = FinalScores(Lower(last.query), last.context).research
    /\ 10 * last.cls.confidence < 8 * Scale

\* C4: a query that holds both a data format word and a research format word
\* is classified data_analysis with confidence 0.9, whatever the context.
C4_DataFormatFirst ==
    (last.op = "_classify_query" /\ AnyIn(data_formats, Lower(last.query))
         /\ AnyIn(research_formats, Lower(last.query))) =>
        /\ last.cls.query_type = DATA_ANALYSIS
        /\ 10 * last.cls.confidence = 9 * Scale

\* both kinds of word in the query, and a context that names documents only
C4_Witness ==
    /\ last.op = "_classify_query"
    /\ AnyIn(data_formats, Lower(last.query))
    /\ AnyIn(research_formats, Lower(last.query))
    /\ Len(ContextList(last.context, "loaded_documents")) > 0
    /\ Len(ContextList(last.context, "loaded_datasets")) = 0
    /\ last.cls.query_type = DATA_ANALYSIS

\* C5: the confidence returned by _classify_query lies in [0, 1] for every
\* query and context, the two context bonuses included.
C5_ConfidenceInUnitInterval ==
    last.op = "_classify_query" =>
        (0 <= last.cls.confidence /\ last.cls.confidence <= Scale)

\* a final score above 1 (keyword score plus the bonus), with both bonuses given
C5_Witness ==
    /\ last.op = "_classify_query"
    /\ GetContextBias(last.context).data > 0
    /\ GetContextBias(last.context).research > 0
    /\ FinalScores(Lower(last.query), last.context).data > Scale
    /\ last.cls.query_type = DATA_ANALYSIS

\* C6: a process_query call classifies its (query, context) exactly as the
\* remembered earlier call did whenever the two inputs are equal, whatever
\* the stores held at either call and whatever loads, queries and clears
\* came between them.
C6_SameInputSameClassification ==
    (last.op = "process_query" /\ memo.set /\ memo.query = last.query
         /\ memo.context = last.context) =>
        last.cls = memo.cls

\* two calls with equal inputs made on different store contents
C6_Witness ==
    /\ last.op = "process_query"
    /\ memo.set
    /\ memo.query = last.query
    /\ memo.context = last.context
    /\ memo.had_data # last.had_data
    /\ memo.had_docs # last.had_docs
    /\ last.cls.query_type = AMBIGUOUS
    /\ last.cls = memo.cls

----------------------------------------------------------------------------
(* Properties of DataIntelligenceAgent, checked under SpecData *)

\* C9: after any sequence of loads and bulk clears, list_datasets holds
\* exactly the names loaded since the last clear, each once, and the stored
\* dataset and profile of a name are those of its latest successful load.
C9_EachLoadedNameOnce ==
    /\ \A n \in DOMAIN loaded :
           Cardinality({i \in 1..Len(ListDatasets) : ListDatasets[i] = n}) = 1
    /\ \A i \in 1..Len(ListDatasets) : ListDatasets[i] \in DOMAIN loaded
    /\ \A n \in DOMAIN loaded :
           /\ DictGet(data_storage, n, NoFrame) = loaded[n]
           /\ Cardinality({i \in 1..Len(dataset_info) : dataset_info[i].key = n}) = 1
           /\ DictGet(dataset_info, n, NoInfo) = GenerateDatasetInfo(loaded[n], n)
    /\ Len(dataset_info) = Len(data_storage)

\* a successful load of a name that was already held, next to another name:
\* two entries, the reloaded one holding the new frame
C9_Witness ==
    /\ last.op = "load_data"
    /\ "success" \in DOMAIN last.result
    /\ last.name = "sales.csv"
    /\ ListDatasets = <<"sales.csv", "costs.xlsx">>
    /\ DictGet(data_storage, "sales.csv", NoFrame) = CostsFrame

\* C10: DataIntelligenceAgent.process_query returns the no-dataset error
\* whenever the dataset it addresses (the named one, else current_dataset) is
\* not in data_storage: before any load, for an unknown name, and for an
\* un-named query after the bulk clear left current_dataset behind.
C10_NoDatasetError ==
    LET named == last.name # None /\ last.name # ""
        addressed == IF named THEN last.name ELSE current_dataset
    IN  (last.op = "data_process_query"
             /\ (addressed = None \/ ~HasKey(data_storage, addressed))) =>
            last.result = [error |-> "No dataset loaded. Please upload a file first."]

\* an un-named query after the clear, current_dataset still naming the
\* removed dataset
C10_Witness ==
    /\ last.op = "data_process_query"
    /\ last.name = None
    /\ current_dataset = "sales.csv"
    /\ data_storage = <<>>
    /\ "error" \in DOMAIN last.result

----------------------------------------------------------------------------
(* Properties of the stores under loads and the bulk clear, checked under Spec *)

\* C11: the bulk clear empties the five maps in one step: right after
\* clear_all_data the dataset store, the profile map, the document store,
\* the embeddings map and the index map are all empty, and no step of the
\* backend takes any of the five from non-empty to empty while leaving
\* another of them non-empty.
C11_ClearEmptiesAllAtOnce ==
    [][ /\ (last'.op = "clear_all_data") =>
               /\ data_storage' = <<>> /\ dataset_info' = <<>>
               /\ documents' = <<>> /\ embeddings' = <<>> /\ faiss_indexes' = <<>>
        /\ (\/ Len(data_storage') < Len(data_storage)
            \/ Len(dataset_info') < Len(dataset_info)
            \/ Len(documents') < Len(documents)
            \/ Len(embeddings') < Len(embeddings)
            \/ Len(faiss_indexes') < Len(faiss_indexes)) =>
               /\ data_storage' = <<>> /\ dataset_info' = <<>>
               /\ documents' = <<>> /\ embeddings' = <<>> /\ faiss_indexes' = <<>>
      ]_vars

\* a listing made after a clear of two non-empty stores sees nothing
C11_Witness ==
    /\ last.op = "clear_all_data"
    /\ last.had_data /\ last.had_docs
    /\ data_storage = <<>> /\ dataset_info = <<>>
    /\ documents = <<>> /\ embeddings = <<>> /\ faiss_indexes = <<>>

\* C12 as stated: the document store, the embeddings map and the index map
\* have the same key set in every reachable state.
C12_SameKeySets ==
    /\ {documents[i].key : i \in 1..Len(documents)}
           = {embeddings[i].key : i \in 1..Len(embeddings)}
    /\ {documents[i].key : i \in 1..Len(documents)}
           = {faiss_indexes[i].key : i \in 1..Len(faiss_indexes)}

\* C26: OrchestratorAgent.process_query changes a store only by loading a
\* pending file, and only when the query goes to a handler whose store is
\* empty and the context carries that handler's pending file; otherwise both
\* stores stay as they are; when the pending load fails, the load error is
\* returned and the query is not run.
C26_StoresChangeOnlyByPendingLoad ==
    [][ (last'.op = "process_query") =>
            LET ctx == last'.context
                data_changed ==
                    <<data_storage', dataset_info', current_dataset'>>
                        # <<data_storage, dataset_info, current_dataset>>
                docs_changed ==
                    <<documents', embeddings', faiss_indexes'>>
                        # <<documents, embeddings, faiss_indexes>>
                data_pending == ctx.present /\ "pending_data_file" \in ctx.keys
                pdf_pending == ctx.present /\ "pending_pdf_file" \in ctx.keys
                dfile == ctx.pending_data_file
                pfile == ctx.pending_pdf_file
            IN  /\ data_changed =>
                       /\ last'.route = "data" /\ Len(data_storage) = 0 /\ data_pending
                       /\ ~docs_changed
                       /\ data_storage' = <<[key |-> dfile.name, value |-> dfile.file.frame]>>
                       /\ current_dataset' = dfile.name
                /\ docs_changed =>
                       /\ last'.route = "research" /\ Len(documents) = 0 /\ pdf_pending
                       /\ ~data_changed
                       /\ Len(documents') = 1 /\ documents'[1].key = pfile.name
                       /\ documents'[1].value.sentences = pfile.file.sentences
                /\ (/\ last'.route = "data" /\ Len(data_storage) = 0 /\ data_pending
                    /\ dfile.complete /\ ~dfile.file.parses) =>
                       /\ "error" \in DOMAIN last'.result
                       /\ last'.result.error = "Failed to load file"
                       /\ "agent" \notin DOMAIN last'.result
                /\ (/\ last'.route = "research" /\ Len(documents) = 0 /\ pdf_pending
                    /\ pfile.complete
                    /\ (~pfile.file.readable \/ pfile.file.blank
                            \/ Len(pfile.file.sentences) = 0)) =>
                       /\ "error" \in DOMAIN last'.result
                       /\ last'.result.error \in {"Failed to process PDF",
                                                 "No text content found in PDF"}
                       /\ "agent" \notin DOMAIN last'.result
      ]_vars

\* a query that loaded the pending data file into the empty store and was
\* answered from it
C26_Witness ==
    /\ last.op = "process_query"
    /\ ~last.had_data
    /\ Len(data_storage) = 1
    /\ "agent" \in DOMAIN last.result
    /\ last.result.agent = "data_intelligence"

\* C28: the routing metadata names the handler that made the result: a
\* result of process_query tagged agent = 'data_intelligence' has agent_used
\* 'Data Intelligence Agent', one tagged 'research_assistant' has
\* 'Research Assistant Agent', also for an ambiguous query that the loaded
\* state resolved.
C28_AgentUsedNamesTheHandler ==
    (last.op = "process_query" /\ "agent" \in DOMAIN last.result) =>
        /\ last.result.agent = "data_intelligence" =>
               last.result.orchestrator_info.agent_used = "Data Intelligence Agent"
        /\ last.result.agent = "research_assistant" =>
               last.result.orchestrator_info.agent_used = "Research Assistant Agent"

----------------------------------------------------------------------------
(* Properties of the DataIntelligenceAgent handlers, checked under SpecHandlers *)

\* C13: process_query on a loaded dataset runs exactly one handler, that of
\* the first keyword group, in the order sum, mean, max, min (aggregation),
\* count, visualization, trend, ranking, filter, with a word occurring in the
\* lowercased query, and the general handler when no group has one.
C13_FirstMatchingCategory ==
    LET q == Lower(last.query)
        groups ==
            << [name |-> "sum", words |-> <<"total", "sum", "add">>],
               [name |-> "mean", words |-> <<"average", "mean", "avg">>],
               [name |-> "max", words |-> <<"maximum", "max", "highest">>],
               [name |-> "min", words |-> <<"minimum", "min", "lowest">>],
               [name |-> "count", words |-> <<"count", "number of">>],
               [name |-> "visualization",
                words |-> <<"plot", "chart", "graph", "visualize", "show">>],
               [name |-> "trend", words |-> <<"trend", "over time", "timeline">>],
               [name |-> "ranking", words |-> <<"top", "bottom", "rank">>],
               [name |-> "filter", words |-> <<"filter", "where", "condition">>] >>
        hit == {i \in 1..Len(groups) :
                   \E w \in 1..Len(groups[i].words) : Contains(groups[i].words[w], q)}
        first == IF hit = {} THEN "general"
                 ELSE groups[CHOOSE i \in hit : \A j \in hit : i <= j].name
        tag == IF first \in {"sum", "mean", "max", "min"} THEN "aggregation" ELSE first
        r == last.result
    IN  (last.op = "data_process_query" /\ HasKey(data_storage, current_dataset)) =>
            /\ ("query_type" \in DOMAIN r) # ("error" \in DOMAIN r)
            /\ ("query_type" \in DOMAIN r) => r.query_type = tag
            /\ ("result" \in DOMAIN r /\ tag = "aggregation") => r.message[2] = first
            /\ ("results" \in DOMAIN r) => (tag = "aggregation" /\ r.message[1] = first)
            /\ ("error" \in DOMAIN r) =>
                   \/ tag = "visualization"
                          /\ r.error = "Unable to determine appropriate columns for visualization"
                   \/ tag = "trend"
                          /\ r.error \in {"No datetime columns found for trend analysis",
                                          "No numeric columns found for trend analysis",
                                          "Failed to process query"}
                   \/ tag = "ranking"
                          /\ r.error \in {"Could not identify column for ranking",
                                          "Failed to process query"}

\* a query with a visualization word and a trend word goes to visualization
C13_Witness ==
    /\ last.op = "data_process_query"
    /\ Contains("show", Lower(last.query))
    /\ Contains("trend", Lower(last.query))
    /\ "query_type" \in DOMAIN last.result
    /\ last.result.query_type = "visualization"

\* C14 as stated: an aggregation gives the single-column result whenever the
\* name of some numeric column occurs in the query, and the mapping over the
\* numeric columns only when no column name occurs in it.
C14_SingleWheneverNumericNamed ==
    LET df == DictGet(data_storage, current_dataset, NoFrame)
        q == Lower(last.query)
        named == {c \in 1..Len(df.columns) : Contains(Lower(df.columns[c]), q)}
        r == last.result
    IN  (/\ last.op = "data_process_query"
         /\ "query_type" \in DOMAIN r
         /\ r.query_type = "aggregation") =>
            /\ (\E c \in named : df.dtypes[c] = "number") =>
                   ("result" \in DOMAIN r /\ "results" \notin DOMAIN r)
            /\ ("results" \in DOMAIN r) => named = {}

\* C14: an aggregation gives the statistic of one column only, as a single
\* result, exactly when the first column, in column order, whose name occurs in
\* the lowercased query is numeric; when no column name occurs, or that first
\* column is not numeric, it gives the mapping over every numeric column.
C14_SingleWhenFirstNamedIsNumeric ==
    LET df == DictGet(data_storage, current_dataset, NoFrame)
        q == Lower(last.query)
        named == {c \in 1..Len(df.columns) : Contains(Lower(df.columns[c]), q)}
        first == CHOOSE c \in named : \A d \in named : c <= d
        numeric == {c \in 1..Len(df.columns) : df.dtypes[c] = "number"}
        r == last.result
    IN  (/\ last.op = "data_process_query"
         /\ "query_type" \in DOMAIN r
         /\ r.query_type = "aggregation") =>
            IF named # {} /\ first \in numeric
            THEN /\ "result" \in DOMAIN r
                 /\ "results" \notin DOMAIN r
                 /\ r.message[4] = df.columns[first]
                 /\ r.message[2] = "sum" => r.result = [num |-> SeqSum(df.values[first]), den |-> 1]
                 /\ r.message[2] = "mean" =>
                        r.result = [num |-> SeqSum(df.values[first]), den |-> Len(df.values[first])]
            ELSE /\ "results" \in DOMAIN r
                 /\ "result" \notin DOMAIN r
                 /\ {r.results[i].key : i \in 1..Len(r.results)} = {df.columns[c] : c \in numeric}

\* the total of Revenue = [1200, 75, 400, 1200, 80] is the single result 2955
C14_Witness ==
    /\ last.op = "data_process_query"
    /\ last.query = "what is the total Revenue"
    /\ DictGet(data_storage, current_dataset, NoFrame) = SalesFrame
    /\ "result" \in DOMAIN last.result
    /\ last.result.result = [num |-> 2955, den |-> 1]

\* C15 as stated: 'top N by Revenue' (N the first integer in the query, 5
\* without one) on a dataset with a numeric column Revenue and at least N rows
\* returns exactly N rows, those with the largest Revenue, in descending
\* order, equal values in first-seen order.
C15_TopNByRevenue ==
    LET df == DictGet(data_storage, current_dataset, NoFrame)
        q == Lower(last.query)
        revenue == {c \in 1..Len(df.columns) :
                       df.columns[c] = "Revenue" /\ df.dtypes[c] = "number"}
        v == df.values[CHOOSE c \in revenue : TRUE]
        n == FirstInteger(last.query, 5)
        r == last.result
    IN  (/\ last.op = "data_process_query"
         /\ SubSeq(q, 1, 3) = "top"
         /\ Contains("by revenue", q)
         /\ revenue # {}
         /\ NumRows(df) >= n) =>
            /\ "result" \in DOMAIN r
            /\ Len(r.result) = n
            /\ \A i, j \in 1..Len(r.result) :
                   i < j => \/ v[r.result[i]] > v[r.result[j]]
                            \/ v[r.result[i]] = v[r.result[j]] /\ r.result[i] < r.result[j]
            /\ \A i \in 1..Len(r.result) :
                   \A o \in (1..NumRows(df)) \ {r.result[k] : k \in 1..Len(r.result)} :
                       \/ v[r.result[i]] > v[o]
                       \/ v[r.result[i]] = v[o] /\ r.result[i] < o

\* C15: the same, on a dataset where Revenue is the first column, in column
\* order, whose lowercased name occurs in the lowercased query.
C15_TopNByRevenueFirstNamed ==
    LET df == DictGet(data_storage, current_dataset, NoFrame)
        q == Lower(last.query)
        named == {c \in 1..Len(df.columns) : Contains(Lower(df.columns[c]), q)}
        first == CHOOSE c \in named : \A d \in named : c <= d
        v == df.values[first]
        n == FirstInteger(last.query, 5)
        r == last.result
    IN  (/\ last.op = "data_process_query"
         /\ SubSeq(q, 1, 3) = "top"
         /\ Contains("by revenue", q)
         /\ named # {}
         /\ df.columns[first] = "Revenue"
         /\ df.dtypes[first] = "number"
         /\ NumRows(df) >= n) =>
            /\ "result" \in DOMAIN r
            /\ r.query_type = "ranking"
            /\ Len(r.result) = n
            /\ \A i, j \in 1..Len(r.result) :
                   i < j => \/ v[r.result[i]] > v[r.result[j]]
                            \/ v[r.result[i]] = v[r.result[j]] /\ r.result[i] < r.result[j]
            /\ \A i \in 1..Len(r.result) :
                   \A o \in (1..NumRows(df)) \ {r.result[k] : k \in 1..Len(r.result)} :
                       \/ v[r.result[i]] > v[o]
                       \/ v[r.result[i]] = v[o] /\ r.result[i] < o

\* 'top 3 by Revenue' on Revenue = [1200, 75, 400, 1200, 80] gives rows 1, 4, 3
C15_Witness ==
    /\ last.op = "data_process_query"
    /\ last.query = "top 3 by Revenue"
    /\ DictGet(data_storage, current_dataset, NoFrame) = SalesFrame
    /\ "result" \in DOMAIN last.result
    /\ last.result.result = <<1, 4, 3>>

\* C20: in the profile load_data makes of a dataset, numeric_columns,
\* categorical_columns and datetime_columns are pairwise disjoint and together
\* hold every column of the dataset.
C20_ColumnTypesPartition ==
    \A i \in 1..Len(dataset_info) :
        LET info == dataset_info[i].value
            numeric == {info.numeric_columns[k] : k \in 1..Len(info.numeric_columns)}
            categorical ==
                {info.categorical_columns[k] : k \in 1..Len(info.categorical_columns)}
            datetime == {info.datetime_columns[k] : k \in 1..Len(info.datetime_columns)}
        IN  /\ numeric \cap categorical = {}
            /\ numeric \cap datetime = {}
            /\ categorical \cap datetime = {}
            /\ numeric \cup categorical \cup datetime =
                   {info.columns[k] : k \in 1..Len(info.columns)}

----------------------------------------------------------------------------
(* Properties of the ResearchAssistantAgent text functions, checked under SpecText *)

\* C16: _split_into_chunks drops no sentence and keeps their order: when each
\* chunk after the first loses the sentences it repeats from the end of the
\* chunk before it, the chunks' sentences put end to end are the sentences of
\* the text, also when a sentence is longer than the chunk budget and when the
\* text is one sentence.
C16_ChunksCoverInOrder ==
    last.op = "split_into_chunks" =>
        LET chunks == last.result
            S == [k \in 1..Len(chunks) |-> SentTokenize(chunks[k].text)]
        IN  /\ \A k \in 1..Len(chunks) : chunks[k].sentence_count = Len(S[k])
            /\ \E carried \in [1..Len(chunks) -> 0..4] :
                   /\ \A k \in 1..Len(chunks) :
                          /\ carried[k] < Len(S[k])
                          /\ k = 1 => carried[k] = 0
                          /\ k > 1 =>
                                 /\ carried[k] <= Len(S[k - 1])
                                 /\ SubSeq(S[k], 1, carried[k]) =
                                        SubSeq(S[k - 1], Len(S[k - 1]) - carried[k] + 1,
                                               Len(S[k - 1]))
                   /\ Flatten([k \in 1..Len(chunks) |->
                                  SubSeq(S[k], carried[k] + 1, Len(S[k]))])
                          = SentTokenize(last.text)

\* a text whose second sentence is longer than the budget is split into
\* several chunks, and a later chunk repeats a sentence
C16_Witness ==
    /\ last.op = "split_into_chunks"
    /\ \E i \in 1..Len(SentTokenize(last.text)) :
           Len(SentTokenize(last.text)[i]) >= last.args[1]
    /\ Len(last.result) >= 3
    /\ \E k \in 2..Len(last.result) : last.result[k].sentence_count >= 2

\* C17: _generate_summary returns the text it was given, unchanged, when the
\* text has at most max_sentences sentences (none included); otherwise the
\* summary is made of exactly max_sentences sentences.
C17_SummaryLength ==
    last.op = "generate_summary" =>
        IF Len(SentTokenize(last.text)) <= last.args[1]
        THEN last.result = last.text
        ELSE Len(SentTokenize(last.result)) = last.args[1]

\* a two-sentence text with a doubled space comes back as it is, and a
\* four-sentence text has been cut to three
C17_Witness ==
    /\ last.op = "generate_summary"
    /\ last.args[1] = 3
    /\ \/ /\ Len(SentTokenize(last.text)) = 2
          /\ last.text # Join(SentTokenize(last.text))
          /\ last.result = last.text
       \/ /\ Len(SentTokenize(last.text)) = 4
          /\ Len(SentTokenize(last.result)) = 3

\* C18 as stated: a summary of a text with more than max_sentences sentences
\* holds the max_sentences sentences with the highest scores, the earlier
\* sentence going first among equal scores, in their original order.
C18_TopScoresEarlierFirst ==
    LET sentences == SentTokenize(last.text)
        score == [i \in 1..Len(sentences) |->
                     (IF 10 * (i - 1) < 3 * Len(sentences) THEN 2 ELSE 0)
                         + (IF 10 * (i - 1) > 7 * Len(sentences) THEN 1 ELSE 0)
                         + (IF 50 < Len(sentences[i]) /\ Len(sentences[i]) < 200
                            THEN 1 ELSE 0)]
    IN  (last.op = "generate_summary" /\ Len(sentences) > last.args[1]) =>
            \E chosen \in SUBSET (1..Len(sentences)) :
                /\ Cardinality(chosen) = last.args[1]
                /\ \A i \in chosen : \A j \in (1..Len(sentences)) \ chosen :
                       \/ score[i] > score[j]
                       \/ score[i] = score[j] /\ i < j
                /\ last.result =
                       Join(SelectSeq([i \in 1..Len(sentences) |->
                                          IF i \in chosen THEN sentences[i] ELSE ""],
                                      LAMBDA sentence : sentence # ""))

\* C18: the same with, among sentences of equal score, the later sentence
\* going first.
C18_TopScoresLaterFirst ==
    LET sentences == SentTokenize(last.text)
        score == [i \in 1..Len(sentences) |->
                     (IF 10 * (i - 1) < 3 * Len(sentences) THEN 2 ELSE 0)
                         + (IF 10 * (i - 1) > 7 * Len(sentences) THEN 1 ELSE 0)
                         + (IF 50 < Len(sentences[i]) /\ Len(sentences[i]) < 200
                            THEN 1 ELSE 0)]
    IN  (last.op = "generate_summary" /\ Len(sentences) > last.args[1]) =>
            \E chosen \in SUBSET (1..Len(sentences)) :
                /\ Cardinality(chosen) = last.args[1]
                /\ \A i \in chosen : \A j \in (1..Len(sentences)) \ chosen :
                       \/ score[i] > score[j]
                       \/ score[i] = score[j] /\ i > j
                /\ last.result =
                       Join(SelectSeq([i \in 1..Len(sentences) |->
                                          IF i \in chosen THEN sentences[i] ELSE ""],
                                      LAMBDA sentence : sentence # ""))

\* with three sentences asked of four whose third and fourth score the same,
\* the summary holds the first, second and fourth
C18_Witness ==
    /\ last.op = "generate_summary"
    /\ last.args[1] = 3
    /\ Len(SentTokenize(last.text)) = 4
    /\ Len(SentTokenize(last.text)[3]) > 50
    /\ last.result = Join(<<SentTokenize(last.text)[1], SentTokenize(last.text)[2],
                            SentTokenize(last.text)[4]>>)

\* C19: _generate_answer uses one tier only, the first of definition, method
\* and result with a word in the lowercased question: the answer is the first
\* sentence of the context holding one of that tier's words; when that tier
\* has no such sentence, or no tier applies, it is the first sentence of the
\* context, and the fixed message when the context has no sentence.
C19_OneTierOnly ==
    LET q == Lower(last.args[1])
        sentences == SentTokenize(last.text)
        tiers ==
            << [asks |-> {"what is", "define", "definition"},
                words |-> {"is", "are", "defined", "refers"}],
               [asks |-> {"how", "method", "approach"},
                words |-> {"method", "approach", "technique", "process"}],
               [asks |-> {"result", "conclusion", "finding"},
                words |-> {"result", "conclusion", "found", "showed"}] >>
        asked == {t \in 1..3 : \E w \in tiers[t].asks : Contains(w, q)}
        tier == CHOOSE t \in asked : \A u \in asked : t <= u
        hits == IF asked = {} THEN {}
                ELSE {i \in 1..Len(sentences) :
                         \E w \in tiers[tier].words : Contains(w, Lower(sentences[i]))}
    IN  last.op = "generate_answer" =>
            IF hits # {} THEN last.result = sentences[CHOOSE i \in hits : \A j \in hits : i <= j]
            ELSE IF Len(sentences) > 0 THEN last.result = sentences[1]
            ELSE last.result =
                     "I couldn't find a specific answer to your question in the loaded documents."

\* a definition question on a context without a definition sentence but with
\* a method sentence: the answer is the first sentence, not the method one
C19_Witness ==
    /\ last.op = "generate_answer"
    /\ Contains("what is", Lower(last.args[1]))
    /\ Contains("method", Lower(last.args[1]))
    /\ Len(SentTokenize(last.text)) >= 2
    /\ ~AnyIn(<<"is", "are", "defined", "refers">>, Lower(last.text))
    /\ Contains("method", Lower(SentTokenize(last.text)[2]))
    /\ last.result = SentTokenize(last.text)[1]

\* C21: a query handled as a trend query gives the no-datetime-column error
\* when the dataset has no column inferable as datetime, the no-numeric-column
\* error when it has one but no numeric column, and otherwise a line chart
\* over the first datetime column and the first numeric column with the rows
\* in ascending date order; the stored dataset stays as it was loaded.
C21_TrendThreeCases ==
    LET q == Lower(last.query)
        earlier == <<"total", "sum", "add", "average", "mean", "avg", "maximum", "max",
                     "highest", "minimum", "min", "lowest", "count", "number of",
                     "plot", "chart", "graph", "visualize", "show">>
        info == DictGet(dataset_info, current_dataset, NoInfo)
        r == last.result
    IN  (/\ last.op = "data_process_query"
         /\ HasKey(data_storage, current_dataset)
         /\ \E w \in {"trend", "over time", "timeline"} : Contains(w, q)
         /\ \A k \in 1..Len(earlier) : ~Contains(earlier[k], q)) =>
            /\ DictGet(data_storage, current_dataset, NoFrame) = loaded[current_dataset]
            /\ IF Len(info.datetime_columns) = 0
               THEN /\ "error" \in DOMAIN r
                    /\ r.error = "No datetime columns found for trend analysis"
               ELSE IF Len(info.numeric_columns) = 0
               THEN /\ "error" \in DOMAIN r
                    /\ r.error = "No numeric columns found for trend analysis"
               ELSE /\ "chart_data" \in DOMAIN r
                    /\ r.query_type = "trend"
                    /\ r.chart_data.chart_type = "line"
                    /\ r.chart_data.x_column = info.datetime_columns[1]
                    /\ r.chart_data.y_column = info.numeric_columns[1]
                    /\ \A i, j \in 1..Len(r.chart_data.chart_json.x) :
                           i < j => ToDatetime(r.chart_data.chart_json.x[i])
                                        <= ToDatetime(r.chart_data.chart_json.x[j])

\* C23: when building the chart fails inside a visualization or trend
\* query, process_query returns an error result: the result has a top-level
\* error and does not say success.
C23_ChartFailureIsError ==
    (/\ last.op = "data_process_query"
     /\ "chart_data" \in DOMAIN last.result
     /\ "error" \in DOMAIN last.result.chart_data) =>
        /\ "error" \in DOMAIN last.result
        /\ ~("success" \in DOMAIN last.result /\ last.result.success)

\* C29: no query containing the word 'lowest' is handled by the ranking
\* handler: the min-aggregation keywords are tested before the ranking ones,
\* so such a query gets an aggregation result; the ascending ranking result
\* (the N smallest rows) is returned only for queries that contain 'bottom'
\* and no aggregation, count, visualization or trend keyword.
C29_LowestNeverRanks ==
    last.op = "data_process_query" =>
        /\ Contains("lowest", Lower(last.query)) =>
               /\ "query_type" \in DOMAIN last.result =>
                      last.result.query_type = "aggregation"
               /\ "error" \in DOMAIN last.result =>
                      last.result.error # "Could not identify column for ranking"
        /\ (/\ "query_type" \in DOMAIN last.result
            /\ last.result.query_type = "ranking"
            /\ last.result.message[1] = "Bottom") =>
               /\ Contains("bottom", Lower(last.query))
               /\ ~AnyIn(<<"total", "sum", "add", "average", "mean", "avg",
                           "maximum", "max", "highest", "minimum", "min", "lowest",
                           "count", "number of",
                           "plot", "chart", "graph", "visualize", "show",
                           "trend", "over time", "timeline">>, Lower(last.query))

\* a query with both 'bottom' and 'lowest' answered on a loaded dataset
C29_Witness ==
    /\ last.op = "data_process_query"
    /\ Contains("lowest", Lower(last.query))
    /\ Contains("bottom", Lower(last.query))
    /\ "success" \in DOMAIN last.result
    /\ last.result.query_type = "aggregation"

----------------------------------------------------------------------------
(* Properties of DataIntelligenceAgent queries by name, checked under SpecData *)

\* C22: a query that reaches the general handler returns the stored profile
\* of the dataset it addresses: for process_query(text, datasetName) with
\* datasetName loaded, the info returned is the profile of datasetName, also
\* when another dataset was loaded after it.
C22_GeneralInfoOfAddressed ==
    (/\ last.op = "data_process_query"
     /\ last.name # None /\ last.name # ""
     /\ HasKey(data_storage, last.name)
     /\ "query_type" \in DOMAIN last.result
     /\ last.result.query_type = "general") =>
        last.result.info = DictGet(dataset_info, last.name, NoInfo)

\* C27: a load_data call that returns an error (unsupported extension or
\* parse failure) leaves the dataset store, the profile map and the active
\* dataset name as they were before the call; in every reachable state the
\* dataset store and the profile map have the same set of keys.
C27_FailedLoadChangesNothing ==
    /\ []({data_storage[i].key : i \in 1..Len(data_storage)} =
              {dataset_info[i].key : i \in 1..Len(dataset_info)})
    /\ [][ (last'.op = "load_data" /\ "error" \in DOMAIN last'.result) =>
               /\ data_storage' = data_storage
               /\ dataset_info' = dataset_info
               /\ current_dataset' = current_dataset ]_vars

\* a failed load of a name other than the active one, with a dataset stored
C27_Witness ==
    /\ last.op = "load_data"
    /\ "error" \in DOMAIN last.result
    /\ Len(data_storage) > 0
    /\ HasKey(data_storage, current_dataset)
    /\ last.name # current_dataset

\* C30: after any sequence of loads, a query issued without a dataset name
\* addresses the dataset of the most recent successful load_data call, also
\* when that call reloaded a name already stored; a failed load does not
\* change which dataset un-named queries address.  A successful load makes
\* its name the active one and stores its frame under it, a failed load and
\* every other operation leave the active name alone, and an un-named query
\* answers as the same query naming the active dataset does.
C30_UnnamedQueryAddressesLastLoad ==
    /\ []((last.op = "data_process_query" /\ last.name \in {None, ""}) =>
              last.result = DataProcessQuery(last.query, current_dataset))
    /\ [][ /\ (last'.op = "load_data" /\ "success" \in DOMAIN last'.result) =>
                  /\ current_dataset' = last'.name
                  /\ \E i \in 1..Len(data_storage') :
                         /\ data_storage'[i].key = last'.name
                         /\ data_storage'[i].value = loaded'[last'.name]
           /\ (last'.op = "load_data" /\ "error" \in DOMAIN last'.result) =>
                  /\ current_dataset' = current_dataset
                  /\ data_storage' = data_storage
           /\ last'.op # "load_data" => current_dataset' = current_dataset ]_vars

\* an un-named query answered from the first of two stored datasets, which
\* a reload made the active one again
C30_Witness ==
    /\ last.op = "data_process_query"
    /\ last.name = None
    /\ Len(data_storage) = 2
    /\ current_dataset = data_storage[1].key
    /\ "error" \notin DOMAIN last.result
    /\ last.result # DataProcessQuery(last.query, data_storage[2].key)

----------------------------------------------------------------------------
(* Properties of the document store, checked under SpecResearch *)

\* C24: answer_question, search_documents, summarize_document,
\* list_documents and get_document_info leave the documents, embeddings and
\* index maps as they are, on success and on error; summarize_document and
\* get_document_info return the not-found error for a name that is not stored.
C24_ReadOnlyOutsideLoadAndClear ==
    [][ (last'.op \in {"answer_question", "search_documents", "summarize_document",
                       "list_documents", "get_document_info"}) =>
            /\ documents' = documents
            /\ embeddings' = embeddings
            /\ faiss_indexes' = faiss_indexes
            /\ (/\ last'.op \in {"summarize_document", "get_document_info"}
                /\ ~HasKey(documents, last'.name)) =>
                   last'.result = [error |-> "Document not found"]
      ]_vars

\* a failing answer_question on a store that holds a document, and the
\* document still there
C24_Witness ==
    /\ last.op = "answer_question"
    /\ "error" \in DOMAIN last.result
    /\ last.had_docs
    /\ Len(documents) > 0

\* C25: every entry of the result list of answer_question and
\* search_documents is a hit on an existing chunk, the fillers the index
\* returns for missing neighbours being dropped: a document has at most as
\* many entries as it has chunks, and none of its chunks is listed twice.
C25_HitsAreDistinctChunks ==
    LET hits == IF "relevant_chunks" \in DOMAIN last.result
                THEN last.result.relevant_chunks
                ELSE last.result.results
    IN  (/\ last.op \in {"answer_question", "search_documents"}
         /\ "success" \in DOMAIN last.result) =>
            /\ \A i, j \in 1..Len(hits) :
                   (hits[i].document = hits[j].document
                        /\ hits[i].chunk_id = hits[j].chunk_id) => i = j
            /\ \A d \in 1..Len(documents) :
                   Cardinality({i \in 1..Len(hits) : hits[i].document = documents[d].key})
                       <= Len(documents[d].value.chunks)
            /\ \A i \in 1..Len(hits) : hits[i].score >= 0

====
